---- MODULE Spec2Model ----
(***************************************************************************)
(* Model of the orchestration engines of the document analyzer:            *)
(*   - ProposalEvaluator.evaluate          (src/core/evaluator.py)         *)
(*   - ChatbotEngine.chat and its helpers  (src/core/chatbot.py)           *)
(*                                                                         *)
(* Strings are modelled by what the code does with them.  A text is a      *)
(* record [src, len]: "the first len characters of the text named src",    *)
(* so that slicing (text[:n]) and truthiness (len > 0) are computed and    *)
(* the program's slice lengths keep their real values.                     *)
(* Python None / SQL NULL is the string "none".                            *)
(***************************************************************************)
EXTENDS Integers, Sequences, FiniteSets, TLC

\* ---------------------------------------------------------------- bounds
MaxRequests == 2      \* evaluate requests handled one after the other

\* ------------------------------------------------------ program constants
SummaryFallbackLen == 2000   \* proposal_text[:2000]
StoredTextLen == 10000       \* proposal_text[:10000]
InsightsLen == 500           \* internal_result.get('content', '')[:500]

\* ------------------------------------------------------------------ texts
Min(a, b) == IF a < b THEN a ELSE b

EmptyStr == [src |-> "", len |-> 0]

Str(src, len) == IF len = 0 THEN EmptyStr ELSE [src |-> src, len |-> len]

\* t[:n]
Prefix(t, n) == Str(t.src, Min(t.len, n))

\* bool(t) for a str
Truthy(t) == t.len > 0

\* ------------------------------------------------------------- variables
VARIABLES
    \* --- evaluator: the evaluator_sessions table and one evaluate() run
    evaluator_sessions,  \* session_id -> row
    epc,                 \* position of the running evaluate()
    request,             \* the EvaluatorRequest being handled
    session_id,          \* local session_id of evaluate
    proposal_text, tor_text, guidelines,
    proposal_summary, tor_summary,
    internal_future, external_future,   \* state of the two pool tasks
    internal_result, external_result,   \* what future.result() returned
    join_timeout,        \* which future.result(timeout=180) raised
    llm_calls,           \* completion calls issued by this run, in order
    guideline_lookups,   \* guideline-store lookups made by this run
    session_created,     \* this run has inserted its evaluator_sessions row
    eval_response,       \* the EvaluatorResponse returned, or "none"
    eval_error,          \* the exception evaluate raised, or "none"
    nrequests            \* requests received so far

evalVars == <<evaluator_sessions, epc, request, session_id, proposal_text,
              tor_text, guidelines, proposal_summary, tor_summary,
              internal_future, external_future, internal_result,
              external_result, join_timeout, llm_calls, guideline_lookups,
              session_created, eval_response, eval_error, nrequests>>

VARIABLES
    \* --- chatbot: the chatbot tables and one chat() turn
    chatbot_sessions,    \* session_id -> row
    chatbot_messages,    \* the chatbot_messages table, in insertion order
    cpc,                 \* position of the running chat()
    chat_request,        \* the ChatRequest being handled
    chat_session_id, response_id,
    conversation_string, \* number of history messages rendered
    refined,             \* (requires_retrieval, refined_query)
    context_data,        \* what extract_context returned
    context_info, sources_info, context,
    generated,           \* (response_text, within_knowledge_base)
    chat_calls,          \* completion calls issued by this turn, in order
    chat_response,       \* the ChatResponse returned
    chat_error,          \* the exception chat raised, or "none"
    nturns               \* chat requests received so far

chatVars == <<chatbot_sessions, chatbot_messages, cpc, chat_request,
              chat_session_id, response_id, conversation_string, refined,
              context_data, context_info, sources_info, context, generated,
              chat_calls, chat_response, chat_error, nturns>>

VARIABLES
    \* --- a helper applied on its own to an enumerated input
    fn_in, fn_out, fn_pc

fnVars == <<fn_in, fn_out, fn_pc>>

\* answer_followup (src/core/evaluator.py) and the evaluator_followups table
VARIABLES
    evaluator_followups,   \* rows of evaluator_followups, in insertion order
    followup_request,      \* the EvaluatorFollowupRequest last handled
    followup_calls,        \* completion calls issued while handling it
    followup_response,     \* what answer_followup returned, or NoFollowupResponse
    followup_error,        \* the exception answer_followup raised, or "none"
    nfollowups             \* follow-up requests handled so far

followupVars == <<evaluator_followups, followup_request, followup_calls,
                  followup_response, followup_error, nfollowups>>

\* RateLimitMiddleware (src/api/middleware/rate_limiting.py) and the key it
\* keeps in Redis
VARIABLES
    redis_client,         \* self.redis_client: "client" or "None"
    redis_store,          \* the counter key of one client and path
    dispatches,           \* the dispatch calls: position and locals
    forwarded_in_window   \* call_next calls since the key last expired

limiterVars == <<redis_client, redis_store, dispatches, forwarded_in_window>>

\* the connection pool of src/db/connection.py and the with-blocks of
\* get_db_cursor
VARIABLES
    pool_connections,     \* _connection_pool: place and transaction status
    cursors               \* the get_db_cursor calls: position and locals

dbConnVars == <<pool_connections, cursors>>

infraVars == <<limiterVars, dbConnVars>>

vars == <<evalVars, chatVars, fnVars, followupVars, infraVars>>

\* ------------------------------------------------- EvaluatorRequest inputs
\* How a text field reaches the EvaluatorRequest constructor: not passed at
\* all (the default None is used), passed as None, or passed as a str.
TextArgs ==
    { [arg |-> "omitted", text |-> EmptyStr],
      [arg |-> "none",    text |-> EmptyStr],
      [arg |-> "str",     text |-> EmptyStr],
      [arg |-> "str",     text |-> Str("doc", 1)],
      [arg |-> "str",     text |-> Str("doc", StoredTextLen + 1)] }

\* the ToR field takes the same kinds of argument
TorTextArgs ==
    { [arg |-> "omitted", text |-> EmptyStr],
      [arg |-> "none",    text |-> EmptyStr],
      [arg |-> "str",     text |-> Str("tor", SummaryFallbackLen + 1)] }

\* proposal_file_data / tor_file_data: None or the bytes of an upload
FileArgs == {"none", "pdf"}

\* session ids are numbers; 0 is None
NoId == 0

RequestSessionIds == {NoId, 1}

OrganizationIds == {"none", "org1"}

\* str(uuid.uuid4()): a value no earlier call returned
uuid4(n) == 100 + n

AllSessionIds == {1} \cup {uuid4(n) : n \in 1..MaxRequests}

RequestArgs ==
    [session_id: RequestSessionIds,
     organization_id: OrganizationIds,
     proposal_text_input: TextArgs,
     proposal_file_data: FileArgs,
     tor_text_input: TorTextArgs,
     tor_file_data: FileArgs]

NoRequest ==
    [session_id |-> NoId, organization_id |-> "none",
     proposal_text_input |-> [arg |-> "omitted", text |-> EmptyStr],
     proposal_file_data |-> "none",
     tor_text_input |-> [arg |-> "omitted", text |-> EmptyStr],
     tor_file_data |-> "none"]

\* `if text_input:` / `not v` on an Optional[str]
TextGiven(t) == t.arg = "str" /\ Truthy(t.text)

\* The `values` a pydantic field validator receives: only the fields declared
\* before the validated one.  proposal_file_data is declared after
\* proposal_text_input (tor likewise), so values.get('..._file_data') is None.
values_get_file_data(r, field) == "none"

\* EvaluatorRequest.validate_proposal_input: TRUE when it returns v, FALSE
\* when it raises ValueError
validate_proposal_input(r) ==
    ~ (~ TextGiven(r.proposal_text_input)
         /\ values_get_file_data(r, "proposal_file_data") = "none")

\* EvaluatorRequest.validate_tor_input
validate_tor_input(r) ==
    ~ (~ TextGiven(r.tor_text_input)
         /\ values_get_file_data(r, "tor_file_data") = "none")

\* EvaluatorRequest(...): a field validator runs only for a field that was
\* passed to the constructor (the validators are not declared always=True)
ValidRequest(r) ==
    /\ r.proposal_text_input.arg # "omitted" => validate_proposal_input(r)
    /\ r.tor_text_input.arg # "omitted" => validate_tor_input(r)

\* --------------------------------------------------- evaluator_sessions rows
NoRow ==
    [exists |-> FALSE, proposal_text |-> EmptyStr, tor_text |-> EmptyStr,
     internal_analysis |-> "none", external_analysis |-> "none",
     delta_analysis |-> "none", overall_score |-> "none",
     completed_at |-> "none"]

\* EvaluatorDB.create_session: the INSERT sets the input columns only
NewRow(p, t) ==
    [NoRow EXCEPT !.exists = TRUE, !.proposal_text = p, !.tor_text = t]

\* ----------------------------------------------------------- state: Init
InitEval ==
    /\ evaluator_sessions = [s \in AllSessionIds |-> NoRow]
    /\ epc = "idle"
    /\ request = NoRequest
    /\ session_id = NoId
    /\ proposal_text = EmptyStr
    /\ tor_text = EmptyStr
    /\ guidelines = EmptyStr
    /\ proposal_summary = EmptyStr
    /\ tor_summary = EmptyStr
    /\ internal_future = "none"
    /\ external_future = "none"
    /\ internal_result = "none"
    /\ external_result = "none"
    /\ join_timeout = "none"
    /\ llm_calls = << >>
    /\ guideline_lookups = 0
    /\ session_created = FALSE
    /\ eval_response = "none"
    /\ eval_error = "none"
    /\ nrequests = 0

\* local variables of evaluate() that an action leaves alone
docVars == <<proposal_text, tor_text>>
sumVars == <<proposal_summary, tor_summary>>
poolVars == <<internal_future, external_future, internal_result,
              external_result, join_timeout>>

\* ------------------------------------------------------ evaluate(): steps
\* The caller builds the EvaluatorRequest and awaits evaluate(request).
\* A rejected construction never reaches evaluate.  Line 299 picks the
\* session id.
ReceiveRequest ==
    /\ epc \in {"idle", "rejected", "failed"}
    /\ nrequests < MaxRequests
    /\ \E r \in RequestArgs :
        /\ request' = r
        /\ IF ValidRequest(r)
           THEN /\ epc' = "process_documents"
                /\ session_id' = IF r.session_id # NoId THEN r.session_id
                                 ELSE uuid4(nrequests + 1)
                /\ eval_error' = "none"
           ELSE /\ epc' = "rejected"
                /\ session_id' = NoId
                /\ eval_error' = "ValidationError"
    /\ nrequests' = nrequests + 1
    /\ proposal_text' = EmptyStr
    /\ tor_text' = EmptyStr
    /\ guidelines' = EmptyStr
    /\ proposal_summary' = EmptyStr
    /\ tor_summary' = EmptyStr
    /\ internal_future' = "none"
    /\ external_future' = "none"
    /\ internal_result' = "none"
    /\ external_result' = "none"
    /\ join_timeout' = "none"
    /\ llm_calls' = << >>
    /\ guideline_lookups' = 0
    /\ session_created' = FALSE
    /\ eval_response' = "none"
    /\ UNCHANGED evaluator_sessions
    /\ UNCHANGED <<chatVars, fnVars, followupVars, infraVars>>

\* variant of the handler that swallows the exception and answers with what
\* it has
EvaluateFailedSwallowed(kind) ==
    /\ epc' = "done"
    /\ eval_error' = "none"
    /\ eval_response' = "partial"

\* the handler of evaluate (lines 421-423): log and re-raise
EvaluateFailed(kind) ==
    /\ epc' = "failed"
    /\ eval_error' = kind
    /\ eval_response' = "none"

\* process_proposal / process_tor: the text, or the text extracted from the
\* file, or "" when neither is given.  "raise" stands for the exception of
\* the extraction branch: PDFService.extract_text_from_pdf calls
\* file_data.seek(0) on the bytes it is given and wraps the AttributeError
\* in FileProcessingError.
process_proposal(text_input, file_data) ==
    IF TextGiven(text_input) THEN [raised |-> FALSE, text |-> text_input.text]
    ELSE IF file_data # "none" THEN [raised |-> TRUE, text |-> EmptyStr]
    ELSE [raised |-> FALSE, text |-> EmptyStr]

\* Step 1 (lines 308-317)
ProcessDocuments ==
    /\ epc = "process_documents"
    /\ LET p == process_proposal(request.proposal_text_input,
                                 request.proposal_file_data)
           t == process_proposal(request.tor_text_input, request.tor_file_data)
       IN  IF p.raised
           THEN /\ EvaluateFailed("FileProcessingError")
                /\ UNCHANGED docVars
           ELSE IF t.raised
           THEN /\ EvaluateFailed("FileProcessingError")
                /\ proposal_text' = p.text
                /\ UNCHANGED tor_text
           ELSE /\ epc' = "create_session"
                /\ proposal_text' = p.text
                /\ tor_text' = t.text
                /\ UNCHANGED <<eval_error, eval_response>>
    /\ UNCHANGED <<evaluator_sessions, request, session_id, guidelines,
                   sumVars, poolVars, llm_calls, guideline_lookups, nrequests,
                   session_created>>
    /\ UNCHANGED <<chatVars, fnVars, followupVars, infraVars>>

\* variant of step 2 that goes on without having inserted the row
CreateSessionDeferred ==
    /\ epc = "create_session"
    /\ epc' = "get_guidelines"
    /\ UNCHANGED <<evaluator_sessions, request, session_id, docVars, guidelines,
                   sumVars, poolVars, llm_calls, guideline_lookups,
                   session_created, eval_response, eval_error, nrequests>>
    /\ UNCHANGED <<chatVars, fnVars, followupVars, infraVars>>

\* Step 2 (lines 319-331): EvaluatorDB.create_session inserts the row
CreateSession ==
    /\ epc = "create_session"
    /\ ~ evaluator_sessions[session_id].exists
    /\ evaluator_sessions' =
          [evaluator_sessions EXCEPT ![session_id] =
              NewRow(Prefix(proposal_text, StoredTextLen),
                     Prefix(tor_text, StoredTextLen))]
    /\ session_created' = TRUE
    /\ epc' = "get_guidelines"
    /\ UNCHANGED <<request, session_id, docVars, guidelines, sumVars, poolVars,
                   llm_calls, guideline_lookups, eval_response, eval_error,
                   nrequests>>
    /\ UNCHANGED <<chatVars, fnVars, followupVars, infraVars>>

\* Step 2, the INSERT fails (duplicate session id, or the store is down):
\* create_session raises DatabaseError
CreateSessionFails ==
    /\ epc = "create_session"
    /\ EvaluateFailed("DatabaseError")
    /\ UNCHANGED <<evaluator_sessions, request, session_id, docVars, guidelines,
                   sumVars, poolVars, llm_calls, guideline_lookups, nrequests,
                   session_created>>
    /\ UNCHANGED <<chatVars, fnVars, followupVars, infraVars>>

\* Step 3 (lines 333-342): guideline lookup, only with an organization id
GetGuidelines ==
    /\ epc = "get_guidelines"
    /\ IF request.organization_id # "none"
       THEN /\ guideline_lookups' = guideline_lookups + 1
            /\ \E g \in {EmptyStr, Str("guideline", 1)} : guidelines' = g
       ELSE UNCHANGED <<guidelines, guideline_lookups>>
    /\ epc' = "summarize_proposal"
    /\ UNCHANGED <<evaluator_sessions, request, session_id, docVars, sumVars,
                   poolVars, llm_calls, eval_response, eval_error, nrequests,
                   session_created>>
    /\ UNCHANGED <<chatVars, fnVars, followupVars, infraVars>>

\* Step 3, get_organization_guidelines raises DatabaseError
GetGuidelinesFails ==
    /\ epc = "get_guidelines"
    /\ request.organization_id # "none"
    /\ guideline_lookups' = guideline_lookups + 1
    /\ EvaluateFailed("DatabaseError")
    /\ UNCHANGED <<evaluator_sessions, request, session_id, docVars, guidelines,
                   sumVars, poolVars, llm_calls, nrequests,
                   session_created>>
    /\ UNCHANGED <<chatVars, fnVars, followupVars, infraVars>>

\* what LLMService.generate_completion can do for a summary prompt
SummaryOutcomes ==
    { [op |-> "summary", outcome |-> "raise", text |-> EmptyStr],
      [op |-> "summary", outcome |-> "ok", text |-> Str("llm_summary", 1)] }

\* variant of the handler of lines 126-128 and 152-154 that returns the
\* whole text
summarize_proposal_untruncated(text, completion) ==
    IF completion.outcome = "ok" THEN completion.text ELSE text

\* summarize_proposal / summarize_tor (lines 104-154): the provider's text,
\* or text[:2000] when the completion call raises
summarize_proposal(text, completion) ==
    IF completion.outcome = "ok" THEN completion.text
    ELSE Prefix(text, SummaryFallbackLen)

\* Step 4, first call (line 345)
SummarizeProposal ==
    /\ epc = "summarize_proposal"
    /\ \E c \in SummaryOutcomes :
        /\ llm_calls' = Append(llm_calls, [c EXCEPT !.op = "proposal_summary"])
        /\ proposal_summary' = summarize_proposal(proposal_text, c)
    /\ epc' = "summarize_tor"
    /\ UNCHANGED <<evaluator_sessions, request, session_id, docVars, guidelines,
                   tor_summary, poolVars, guideline_lookups, eval_response,
                   eval_error, nrequests,
                   session_created>>
    /\ UNCHANGED <<chatVars, fnVars, followupVars, infraVars>>

\* Step 4, second call (line 346)
SummarizeTor ==
    /\ epc = "summarize_tor"
    /\ \E c \in SummaryOutcomes :
        /\ llm_calls' = Append(llm_calls, [c EXCEPT !.op = "tor_summary"])
        /\ tor_summary' = summarize_proposal(tor_text, c)
    /\ epc' = "submit_analyses"
    /\ UNCHANGED <<evaluator_sessions, request, session_id, docVars, guidelines,
                   proposal_summary, poolVars, guideline_lookups, eval_response,
                   eval_error, nrequests,
                   session_created>>
    /\ UNCHANGED <<chatVars, fnVars, followupVars, infraVars>>

\* The pool task `lambda: self.run_analysis(...)`: run_analysis is declared
\* `async def`, so the call only creates a coroutine object and returns it;
\* the body of run_analysis (prompt, completion call, parser) is not run.
run_analysis_call(analysis_type) == "coroutine"

\* Step 5 (lines 354-361): both tasks are submitted to the executor
SubmitAnalyses ==
    /\ epc = "submit_analyses"
    /\ internal_future' = "pending"
    /\ external_future' = "pending"
    /\ epc' = "join_internal"
    /\ UNCHANGED <<evaluator_sessions, request, session_id, docVars, guidelines,
                   sumVars, internal_result, external_result, join_timeout,
                   llm_calls, guideline_lookups, session_created,
                   eval_response, eval_error, nrequests>>
    /\ UNCHANGED <<chatVars, fnVars, followupVars, infraVars>>

\* a worker thread runs the first task
RunInternalTask ==
    /\ internal_future = "pending"
    /\ internal_future' = run_analysis_call("P_Internal")
    /\ UNCHANGED <<evaluator_sessions, epc, request, session_id, docVars,
                   guidelines, sumVars, external_future, internal_result,
                   external_result, join_timeout, llm_calls, guideline_lookups,
                   session_created, eval_response, eval_error, nrequests>>
    /\ UNCHANGED <<chatVars, fnVars, followupVars, infraVars>>

\* a worker thread runs the second task
RunExternalTask ==
    /\ external_future = "pending"
    /\ external_future' = run_analysis_call("P_External")
    /\ UNCHANGED <<evaluator_sessions, epc, request, session_id, docVars,
                   guidelines, sumVars, internal_future, internal_result,
                   external_result, join_timeout, llm_calls, guideline_lookups,
                   session_created, eval_response, eval_error, nrequests>>
    /\ UNCHANGED <<chatVars, fnVars, followupVars, infraVars>>

\* line 364: internal_future.result(timeout=180) returns the task's value
JoinInternal ==
    /\ epc = "join_internal"
    /\ internal_future \notin {"none", "pending"}
    /\ internal_result' = internal_future
    /\ epc' = "join_external"
    /\ UNCHANGED <<evaluator_sessions, request, session_id, docVars, guidelines,
                   sumVars, internal_future, external_future, external_result,
                   join_timeout, llm_calls, guideline_lookups, session_created,
                   eval_response, eval_error, nrequests>>
    /\ UNCHANGED <<chatVars, fnVars, followupVars, infraVars>>

\* line 364: the task has not finished within the timeout, result() raises
JoinInternalTimeout ==
    /\ epc = "join_internal"
    /\ internal_future = "pending"
    /\ join_timeout' = "P_Internal"
    /\ epc' = "pool_shutdown_raising"
    /\ UNCHANGED <<evaluator_sessions, request, session_id, docVars, guidelines,
                   sumVars, internal_future, external_future, internal_result,
                   external_result, llm_calls, guideline_lookups,
                   session_created, eval_response, eval_error, nrequests>>
    /\ UNCHANGED <<chatVars, fnVars, followupVars, infraVars>>

\* line 365: external_future.result(timeout=180) returns the task's value
JoinExternal ==
    /\ epc = "join_external"
    /\ external_future \notin {"none", "pending"}
    /\ external_result' = external_future
    /\ epc' = "pool_shutdown"
    /\ UNCHANGED <<evaluator_sessions, request, session_id, docVars, guidelines,
                   sumVars, internal_future, external_future, internal_result,
                   join_timeout, llm_calls, guideline_lookups, session_created,
                   eval_response, eval_error, nrequests>>
    /\ UNCHANGED <<chatVars, fnVars, followupVars, infraVars>>

\* line 365: result() raises on timeout
JoinExternalTimeout ==
    /\ epc = "join_external"
    /\ external_future = "pending"
    /\ join_timeout' = "P_External"
    /\ epc' = "pool_shutdown_raising"
    /\ UNCHANGED <<evaluator_sessions, request, session_id, docVars, guidelines,
                   sumVars, internal_future, external_future, internal_result,
                   external_result, llm_calls, guideline_lookups,
                   session_created, eval_response, eval_error, nrequests>>
    /\ UNCHANGED <<chatVars, fnVars, followupVars, infraVars>>

\* leaving `with ThreadPoolExecutor(...)`: shutdown(wait=True) returns once
\* both tasks have finished
PoolShutdown ==
    /\ epc = "pool_shutdown"
    /\ internal_future \notin {"none", "pending"}
    /\ external_future \notin {"none", "pending"}
    /\ epc' = "delta_insights"
    /\ UNCHANGED <<evaluator_sessions, request, session_id, docVars, guidelines,
                   sumVars, poolVars, llm_calls, guideline_lookups,
                   session_created, eval_response, eval_error, nrequests>>
    /\ UNCHANGED <<chatVars, fnVars, followupVars, infraVars>>

\* leaving the with-block with the TimeoutError of a join: it propagates to
\* the handler of evaluate after the shutdown
PoolShutdownRaising ==
    /\ epc = "pool_shutdown_raising"
    /\ internal_future \notin {"none", "pending"}
    /\ external_future \notin {"none", "pending"}
    /\ EvaluateFailed("TimeoutError")
    /\ UNCHANGED <<evaluator_sessions, request, session_id, docVars, guidelines,
                   sumVars, poolVars, llm_calls, guideline_lookups,
                   session_created, nrequests>>
    /\ UNCHANGED <<chatVars, fnVars, followupVars, infraVars>>

\* a value `v` supports v.get(...): a dict does, a coroutine object or None
\* does not
HasGet(v) == v \notin {"coroutine", "none"}

\* variant of the step of lines 368-369 that runs the UPDATE of lines 391-399
\* before the exception leaves evaluate
ReadInsightsAfterSave ==
    /\ epc = "delta_insights"
    /\ ~ HasGet(internal_result)
    /\ evaluator_sessions' =
          [evaluator_sessions EXCEPT
              ![session_id].internal_analysis = "P_Internal",
              ![session_id].external_analysis = "P_External",
              ![session_id].delta_analysis = "P_Delta",
              ![session_id].completed_at = "now"]
    /\ EvaluateFailed("AttributeError")
    /\ UNCHANGED <<request, session_id, docVars, guidelines,
                   sumVars, poolVars, llm_calls, guideline_lookups,
                   session_created, nrequests>>
    /\ UNCHANGED <<chatVars, fnVars, followupVars, infraVars>>

\* line 368: internal_result.get('content', '')[:500].  internal_result is
\* the coroutine object the pool task returned, so the attribute lookup
\* raises AttributeError, which the handler of evaluate re-raises.  Lines
\* 369-419 (Delta analysis, score, save_evaluation_results, response) are
\* therefore never executed.
ReadInsights ==
    /\ epc = "delta_insights"
    /\ ~ HasGet(internal_result)
    /\ EvaluateFailed("AttributeError")
    /\ UNCHANGED <<evaluator_sessions, request, session_id, docVars, guidelines,
                   sumVars, poolVars, llm_calls, guideline_lookups,
                   session_created, nrequests>>
    /\ UNCHANGED <<chatVars, fnVars, followupVars, infraVars>>

\* Step 6 (lines 380-387): the scores of the three sections (NoScore is
\* None) and the mean of those that are not None, as the fraction num/den
NoScore == -1

NullOverall == [null |-> TRUE, num |-> 0, den |-> 1]

RECURSIVE SumSeq(_)
SumSeq(q) == IF q = << >> THEN 0 ELSE Head(q) + SumSeq(Tail(q))

valid_scores(scores) == SelectSeq(scores, LAMBDA x : x # NoScore)

OverallScore(scores) ==
    IF Len(valid_scores(scores)) > 0
    THEN [null |-> FALSE, num |-> SumSeq(valid_scores(scores)),
          den |-> Len(valid_scores(scores))]
    ELSE NullOverall

\* ======================================================================
\* RateLimitMiddleware (src/api/middleware/rate_limiting.py)
\* ======================================================================
MaxDispatches == 3     \* requests of one client that reach the middleware
NumWorkers == 2        \* server processes that share the Redis store
max_requests == 2      \* limit_config["requests"] (10 to 100, lines 28-33)
window_seconds == 2    \* limit_config["window"] (60, lines 28-33)

Dispatches == 1 .. MaxDispatches

\* the process that handles request r.  dispatch is a coroutine and the
\* Redis client is synchronous, so within one process nothing runs between
\* the get of line 109 and the setex or incr of lines 113 and 148; requests
\* handled by different processes interleave freely
worker(r) == (r % NumWorkers) + 1

\* request.url.path: the path dispatch never limits and a limited one
Paths == {"/health", "/evaluate"}

\* redis_key of line 106 in the store: absent, or a value with a
\* time to live; NoExpiry is the -1 and NoSuchKey the -2 of the TTL command
NoExpiry == -1
NoSuchKey == -2
NoKey == [exists |-> FALSE, value |-> 0, ttl |-> NoSuchKey]

\* current_count when redis_client.get returned None (also its value before
\* the key is read)
None == -1

NoDispatch ==
    [pc |-> "new", path |-> "none", current_count |-> None,
     forwards |-> 0, retry_after |-> 0]

InitLimiter ==
    /\ redis_client = "client"
    /\ redis_store = NoKey
    /\ dispatches = [r \in Dispatches |-> NoDispatch]
    /\ forwarded_in_window = 0

\* __init__ (lines 23-25) and _create_redis_client (lines 35-58): the client,
\* or None when the connection test failed
InitLimiterAny ==
    /\ redis_client \in {"client", "None"}
    /\ redis_store = NoKey
    /\ dispatches = [r \in Dispatches |-> NoDispatch]
    /\ forwarded_in_window = 0

\* call_next(request): the request is handed to the application once more;
\* downstream is "ok" when the application answers and "raise" when its
\* exception comes back out of call_next
CallNext(r, path, downstream, on_raise) ==
    /\ dispatches' =
          [dispatches EXCEPT ![r].path = path,
                             ![r].forwards = @ + 1,
                             ![r].pc = IF downstream = "ok" THEN "returned"
                                       ELSE on_raise]
    /\ forwarded_in_window' =
          IF path = "/health" THEN forwarded_in_window
          ELSE forwarded_in_window + 1

\* lines 89-96: /health, or no Redis client: call_next outside the try
DispatchUnlimited(r) ==
    /\ dispatches[r].pc = "new"
    /\ \E path \in Paths, downstream \in {"ok", "raise"} :
          /\ path = "/health" \/ redis_client = "None"
          /\ CallNext(r, path, downstream, "raised")
    /\ UNCHANGED <<redis_client, redis_store>>
    /\ UNCHANGED <<evalVars, chatVars, fnVars, followupVars, dbConnVars>>

\* lines 98-109: redis_client.get(redis_key); a RedisError goes to the
\* handler of lines 161-164
GetCount(r) ==
    /\ dispatches[r].pc = "new"
    /\ redis_client = "client"
    /\ \A q \in Dispatches \ {r} :
          worker(q) = worker(r) => dispatches[q].pc # "counted"
    /\ \E redis \in {"ok", "raise"} :
          dispatches' =
             [dispatches EXCEPT
                 ![r].path = "/evaluate",
                 ![r].pc = IF redis = "ok" THEN "counted" ELSE "handler",
                 ![r].current_count =
                     IF redis = "ok" /\ redis_store.exists
                     THEN redis_store.value ELSE None]
    /\ UNCHANGED <<redis_client, redis_store, forwarded_in_window>>
    /\ UNCHANGED <<evalVars, chatVars, fnVars, followupVars, dbConnVars>>

\* a Redis command of the try block (setex, incr, ttl) raises: lines 161-164
RedisCommandRaises(r) ==
    /\ dispatches[r].pc = "counted"
    /\ dispatches' = [dispatches EXCEPT ![r].pc = "handler"]
    /\ UNCHANGED <<redis_client, redis_store, forwarded_in_window>>
    /\ UNCHANGED <<evalVars, chatVars, fnVars, followupVars, dbConnVars>>

\* lines 111-114 and 151-159: first request in the window: SETEX with the
\* window as time to live, then call_next inside the try
FirstInWindow(r) ==
    /\ dispatches[r].pc = "counted"
    /\ dispatches[r].current_count = None
    /\ redis_store' = [exists |-> TRUE, value |-> 1, ttl |-> window_seconds]
    /\ \E downstream \in {"ok", "raise"} :
          CallNext(r, "/evaluate", downstream, "handler")
    /\ UNCHANGED redis_client
    /\ UNCHANGED <<evalVars, chatVars, fnVars, followupVars, dbConnVars>>

\* INCR: adds one to the value and leaves the time to live alone; on a key
\* that does not exist it creates the key with value 1 and no expiry
incr(key) ==
    IF key.exists THEN [key EXCEPT !.value = @ + 1]
    ELSE [exists |-> TRUE, value |-> 1, ttl |-> NoExpiry]

\* lines 115-118 and 147-159: the count read is below the limit: INCR, then
\* call_next inside the try
Increment(r) ==
    /\ dispatches[r].pc = "counted"
    /\ dispatches[r].current_count # None
    /\ dispatches[r].current_count < max_requests
    /\ redis_store' = incr(redis_store)
    /\ \E downstream \in {"ok", "raise"} :
          CallNext(r, "/evaluate", downstream, "handler")
    /\ UNCHANGED redis_client
    /\ UNCHANGED <<evalVars, chatVars, fnVars, followupVars, dbConnVars>>

\* lines 118-145: the count read has reached the limit: TTL, then the 429
\* response with the time to live as retry_after
Reject(r) ==
    /\ dispatches[r].pc = "counted"
    /\ dispatches[r].current_count # None
    /\ dispatches[r].current_count >= max_requests
    /\ dispatches' = [dispatches EXCEPT ![r].pc = "rejected",
                                        ![r].retry_after = redis_store.ttl]
    /\ UNCHANGED <<redis_client, redis_store, forwarded_in_window>>
    /\ UNCHANGED <<evalVars, chatVars, fnVars, followupVars, dbConnVars>>

\* lines 161-168: both handlers log and call call_next; an exception of
\* this call leaves dispatch
Handler(r) ==
    /\ dispatches[r].pc = "handler"
    /\ \E downstream \in {"ok", "raise"} :
          CallNext(r, "/evaluate", downstream, "raised")
    /\ UNCHANGED <<redis_client, redis_store>>
    /\ UNCHANGED <<evalVars, chatVars, fnVars, followupVars, dbConnVars>>

\* one second passes in the Redis server: the time to live of the key
\* goes down, and the key is deleted when it reaches 0.  A key with no
\* expiry stays.
Tick ==
    /\ redis_store.exists
    /\ redis_store.ttl > 0
    /\ IF redis_store.ttl = 1
       THEN /\ redis_store' = NoKey
            /\ forwarded_in_window' = 0
       ELSE /\ redis_store' = [redis_store EXCEPT !.ttl = @ - 1]
            /\ forwarded_in_window' = forwarded_in_window
    /\ UNCHANGED <<redis_client, dispatches>>
    /\ UNCHANGED <<evalVars, chatVars, fnVars, followupVars, dbConnVars>>

NextLimiter ==
    \/ \E r \in Dispatches : DispatchUnlimited(r)
    \/ \E r \in Dispatches : GetCount(r)
    \/ \E r \in Dispatches : RedisCommandRaises(r)
    \/ \E r \in Dispatches : FirstInWindow(r)
    \/ \E r \in Dispatches : Increment(r)
    \/ \E r \in Dispatches : Reject(r)
    \/ \E r \in Dispatches : Handler(r)
    \/ Tick

\* ======================================================================
\* get_db_cursor (src/db/connection.py)
\* ======================================================================
MaxCursors == 3        \* with-blocks entered
PoolSize == 2          \* maxconn of the pool, settings.POSTGRES_POOL_SIZE
minconn == 1           \* line 35

Connections == 1 .. PoolSize
Cursors == 1 .. MaxCursors
NoConnection == 0

\* a connection of the pool: where it is ("unopened", "pool", "used",
\* "closed") and the state of its transaction ("idle", "open" for a
\* transaction in progress or failed, "lost" when the server is gone)
\* initialize_pool (lines 16-48) opens minconn connections
InitPool ==
    /\ pool_connections =
          [k \in Connections |->
              [place |-> IF k <= minconn THEN "pool" ELSE "unopened",
               status |-> "idle"]]
    /\ cursors = [c \in Cursors |->
                    [pc |-> "new", connection |-> NoConnection,
                     putconn_calls |-> 0, put_status |-> "none",
                     error |-> "none"]]

\* _connection_pool.getconn(): a pooled connection, else a new one while
\* fewer than maxconn are open, else none (PoolError)
Available ==
    IF \E k \in Connections : pool_connections[k].place = "pool"
    THEN {k \in Connections : pool_connections[k].place = "pool"}
    ELSE {k \in Connections : pool_connections[k].place \in {"unopened", "closed"}}

\* _connection_pool.putconn(connection) of psycopg2: a connection that is
\* not idle is rolled back before it is pooled, one whose server is gone
\* is closed, and so is one that finds minconn connections in the pool
putconn(conns, k) ==
    IF /\ Cardinality({j \in Connections : conns[j].place = "pool"}) < minconn
       /\ conns[k].status # "lost"
    THEN [conns EXCEPT ![k] = [place |-> "pool", status |-> "idle"]]
    ELSE [conns EXCEPT ![k] = [place |-> "closed", status |-> "idle"]]

\* the finally block (lines 116-120) with close_db_connection (lines 71-81):
\* the connection, in the state the exit path left it in, goes to putconn
close_db_connection(c, status, error) ==
    LET k == cursors[c].connection
    IN  /\ pool_connections' =
              putconn([pool_connections EXCEPT ![k].status = status], k)
        /\ cursors' = [cursors EXCEPT ![c].pc = "exited",
                                      ![c].putconn_calls = @ + 1,
                                      ![c].put_status = status,
                                      ![c].error = error]

\* lines 95-99: get_db_connection.  With no connection to give it raises
\* DatabaseError, which get_db_cursor does not handle, and the finally
\* block finds connection None
GetDbCursor(c) ==
    /\ cursors[c].pc = "new"
    /\ IF Available = {}
       THEN /\ cursors' = [cursors EXCEPT ![c].pc = "exited",
                                          ![c].error = "DatabaseError"]
            /\ UNCHANGED pool_connections
       ELSE \E k \in Available :
              /\ pool_connections' =
                    [pool_connections EXCEPT
                        ![k] = [place |-> "used", status |-> "idle"]]
              /\ cursors' = [cursors EXCEPT ![c].pc = "body",
                                            ![c].connection = k]
    /\ UNCHANGED <<evalVars, chatVars, fnVars, followupVars, limiterVars>>

\* the with-body runs a statement: psycopg2 opens a transaction
Execute(c) ==
    /\ cursors[c].pc = "body"
    /\ pool_connections[cursors[c].connection].status = "idle"
    /\ pool_connections' =
          [pool_connections EXCEPT ![cursors[c].connection].status = "open"]
    /\ UNCHANGED cursors
    /\ UNCHANGED <<evalVars, chatVars, fnVars, followupVars, limiterVars>>

\* lines 107-108 and 116-120: the with-body ends, connection.commit()
ExitCommit(c) ==
    /\ cursors[c].pc = "body"
    /\ close_db_connection(c, "idle", "none")
    /\ UNCHANGED <<evalVars, chatVars, fnVars, followupVars, limiterVars>>

\* lines 110-120: a psycopg2.Error from connection.cursor(), from the
\* with-body or from commit(): rollback, DatabaseError, then the finally
\* block.  After connection.rollback() the transaction is over ("idle"), or
\* the call itself raises because the server is gone ("lost")
ExitDatabaseError(c) ==
    /\ cursors[c].pc = "body"
    /\ \E status \in {"idle", "lost"} :
          close_db_connection(c, status,
              IF status = "idle" THEN "DatabaseError" ELSE "psycopg2.Error")
    /\ UNCHANGED <<evalVars, chatVars, fnVars, followupVars, limiterVars>>

\* lines 116-120 only: any other exception from the with-body matches no
\* handler; the finally block runs with the transaction as the body left it
ExitOtherException(c) ==
    /\ cursors[c].pc = "body"
    /\ close_db_connection(c, pool_connections[cursors[c].connection].status,
                           "Exception")
    /\ UNCHANGED <<evalVars, chatVars, fnVars, followupVars, limiterVars>>

NextPool ==
    \/ \E c \in Cursors : GetDbCursor(c)
    \/ \E c \in Cursors : Execute(c)
    \/ \E c \in Cursors : ExitCommit(c)
    \/ \E c \in Cursors : ExitDatabaseError(c)
    \/ \E c \in Cursors : ExitOtherException(c)

InitInfra == InitLimiter /\ InitPool

\* ======================================================================
\* answer_followup (src/core/evaluator.py, lines 425-496)
\* ======================================================================
MaxFollowups == 1     \* follow-up requests handled

FollowupSessionIds == {1, uuid4(1)}

\* request.section goes into the prompt only (lines 463-467)
FollowupSections == {"P_Delta"}

NoFollowupRequest == [session_id |-> NoId, section |-> "none"]

NoFollowupResponse ==
    [returned |-> FALSE, session_id |-> NoId, section |-> "none",
     answer |-> EmptyStr]

InitFollowup ==
    /\ evaluator_followups = << >>
    /\ followup_request = NoFollowupRequest
    /\ followup_calls = 0
    /\ followup_response = NoFollowupResponse
    /\ followup_error = "none"
    /\ nfollowups = 0

\* EvaluatorDB.get_session: the row, or None when no row has the id
get_session(sid) ==
    IF evaluator_sessions[sid].exists
    THEN [found |-> TRUE, row |-> evaluator_sessions[sid]]
    ELSE [found |-> FALSE, row |-> NoRow]

\* what the session store and the Completion Provider do while a follow-up
\* is handled
FollowupOutcomes ==
    { o \in [get_session : {"ok", "raise"}, completion : {"ok", "raise"},
             save_followup : {"ok", "raise"}] :
         \* the calls after one that raises are not made
         /\ o.get_session = "raise" => o.completion = "ok"
         /\ o.completion = "raise" \/ o.get_session = "raise"
               => o.save_followup = "ok" }

\* the exception answer_followup raises, "none" when it returns: the
\* DatabaseError of get_session (line 443), ValueError when get_session
\* returns None (lines 444-445), the LLMServiceError of the completion call
\* (lines 469-473), the DatabaseError of save_followup (lines 476-482)
followup_failure(session, o) ==
    IF o.get_session = "raise" THEN "DatabaseError"
    ELSE IF ~session.found THEN "ValueError"
    ELSE IF o.completion = "raise" THEN "LLMServiceError"
    ELSE IF o.save_followup = "raise" THEN "DatabaseError"
    ELSE "none"

\* variant of answer_followup that also writes the answer into the section
\* of the session row
AnswerFollowupWritingSection ==
    /\ epc \in {"idle", "rejected", "failed"}
    /\ nfollowups < MaxFollowups
    /\ \E sid \in FollowupSessionIds, section \in FollowupSections,
          o \in FollowupOutcomes :
          LET session == get_session(sid)
              failure == followup_failure(session, o)
              called == o.get_session = "ok" /\ session.found
              answer == Str("llm_answer", 1)
          IN  /\ followup_request' = [session_id |-> sid, section |-> section]
              /\ followup_calls' = IF called THEN 1 ELSE 0
              /\ followup_error' = failure
              /\ evaluator_followups' =
                    IF failure = "none"
                    THEN Append(evaluator_followups,
                                [session_id |-> sid, section |-> section,
                                 answer |-> answer])
                    ELSE evaluator_followups
              /\ followup_response' =
                    IF failure = "none"
                    THEN [returned |-> TRUE, session_id |-> sid,
                          section |-> section, answer |-> answer]
                    ELSE NoFollowupResponse
              /\ evaluator_sessions' =
                    IF failure = "none"
                    THEN [evaluator_sessions EXCEPT ![sid].delta_analysis = "answered"]
                    ELSE evaluator_sessions
    /\ nfollowups' = nfollowups + 1
    /\ UNCHANGED <<epc, request, session_id, proposal_text, tor_text,
                   guidelines, proposal_summary, tor_summary, poolVars,
                   llm_calls, guideline_lookups, session_created,
                   eval_response, eval_error, nrequests, chatVars, fnVars,
                   infraVars>>

\* answer_followup: get_session, the completion call, save_followup (an
\* INSERT into evaluator_followups), the response; the handler of lines
\* 494-496 re-raises.  evaluator_sessions is only read.
AnswerFollowup ==
    /\ epc \in {"idle", "rejected", "failed"}
    /\ nfollowups < MaxFollowups
    /\ \E sid \in FollowupSessionIds, section \in FollowupSections,
          o \in FollowupOutcomes :
          LET session == get_session(sid)
              failure == followup_failure(session, o)
              called == o.get_session = "ok" /\ session.found
              answer == Str("llm_answer", 1)
          IN  /\ followup_request' = [session_id |-> sid, section |-> section]
              /\ followup_calls' = IF called THEN 1 ELSE 0
              /\ followup_error' = failure
              /\ evaluator_followups' =
                    IF failure = "none"
                    THEN Append(evaluator_followups,
                                [session_id |-> sid, section |-> section,
                                 answer |-> answer])
                    ELSE evaluator_followups
              /\ followup_response' =
                    IF failure = "none"
                    THEN [returned |-> TRUE, session_id |-> sid,
                          section |-> section, answer |-> answer]
                    ELSE NoFollowupResponse
    /\ nfollowups' = nfollowups + 1
    /\ UNCHANGED <<evalVars, chatVars, fnVars, infraVars>>

\* ======================================================================
\* ChatbotEngine (src/core/chatbot.py)
\* ======================================================================
\* ---------------------------------------------------------------- bounds
MaxTurns == 2         \* chat requests handled one after the other

\* ------------------------------------------------------ program constants
ChatTopK == 4             \* extract_context(refined_query, top_k=4)
WhatsAppMaxLength == 1000 \* break_into_paragraphs(response, max_length=1000)
SeparatorLen == 7         \* len('\n\n---\n\n')

\* str.strip() and str.lower() on the strings the model uses
Strip(s) ==
    CASE s = " TRUE " -> "TRUE"
      [] OTHER -> s

Lower(s) ==
    CASE s = "True" -> "true"
      [] s = "TRUE" -> "true"
      [] s = "False" -> "false"
      [] s = "[True]" -> "[true]"
      [] s = "Cannot Find" -> "cannot find"
      [] s = "NOT IN MY KNOWLEDGE BASE" -> "not in my knowledge base"
      [] OTHER -> s

\* A line of the refinement completion: key is the beginning of the line up
\* to and including its first ':' ("" when the line has none), val the rest.
RefinerLines ==
    { [key |-> "REQUIRES_RETRIEVAL:", val |-> "True"],
      [key |-> "REQUIRES_RETRIEVAL:", val |-> " TRUE "],
      [key |-> "REQUIRES_RETRIEVAL:", val |-> "False"],
      [key |-> "REQUIRES_RETRIEVAL:", val |-> "[True]"],
      [key |-> "REFINED_QUERY:", val |-> "refined question"],
      [key |-> "Requires retrieval:", val |-> "True"],
      [key |-> "", val |-> "I am not sure what you mean"] }

\* the loop of lines 104-110 over the lines of the completion
RECURSIVE ParseRefinerLines(_, _)
ParseRefinerLines(lines, acc) ==
    IF lines = << >> THEN acc
    ELSE LET line == Head(lines)
             next == IF line.key = "REQUIRES_RETRIEVAL:"
                     THEN [acc EXCEPT !.requires_retrieval =
                                         (Lower(Strip(line.val)) = "true")]
                     ELSE IF line.key = "REFINED_QUERY:"
                     THEN [acc EXCEPT !.refined_query = Strip(line.val)]
                     ELSE acc
         IN  ParseRefinerLines(Tail(lines), next)

\* query_refiner (lines 75-124): (True, query) when the completion call
\* raises; otherwise the parse, which starts from (False, query)
query_refiner(query, completion) ==
    IF completion.outcome = "raise"
    THEN [requires_retrieval |-> TRUE, refined_query |-> query]
    ELSE ParseRefinerLines(completion.lines,
             [requires_retrieval |-> FALSE, refined_query |-> query])

\* metadata.get('pdf_name', metadata.get('source', 'Unknown'))
PdfNameOf(result) ==
    IF result.pdf_name # "missing" THEN result.pdf_name
    ELSE IF result.source # "missing" THEN result.source
    ELSE "Unknown"

\* the loop of lines 147-163: the first result of each document name, in
\* rank order, while fewer than top_k are kept
RECURSIVE UniqueContexts(_, _, _, _)
UniqueContexts(results, top_k, seen_pdfs, unique_contexts) ==
    IF results = << >> THEN unique_contexts
    ELSE LET result == Head(results)
             pdf_name == PdfNameOf(result)
         IN  IF pdf_name \notin seen_pdfs /\ Len(unique_contexts) < top_k
             THEN UniqueContexts(Tail(results), top_k,
                      seen_pdfs \cup {pdf_name},
                      Append(unique_contexts,
                             [pdf_name |-> pdf_name,
                              pdf_context |-> result.text,
                              score |-> result.score]))
             ELSE UniqueContexts(Tail(results), top_k, seen_pdfs,
                                 unique_contexts)

\* PDFMappings.get: the mapped descriptor, or the default one; both carry
\* pdf_title = pdf_name
PdfInfo(pdf_name) == [pdf_title |-> pdf_name]

\* get_unique_sources (pdf_mappings.py, lines 109-128)
RECURSIVE get_unique_sources(_, _, _)
get_unique_sources(sources, seen, unique) ==
    IF sources = << >> THEN unique
    ELSE LET source == Head(sources)
         IN  IF source.pdf_title # "" /\ source.pdf_title \notin seen
             THEN get_unique_sources(Tail(sources),
                      seen \cup {source.pdf_title}, Append(unique, source))
             ELSE get_unique_sources(Tail(sources), seen, unique)

\* '\n\n---\n\n'.join(all_context_parts)
RECURSIVE JoinedLen(_)
JoinedLen(parts) ==
    IF parts = << >> THEN 0
    ELSE IF Len(parts) = 1 THEN parts[1].pdf_context.len
    ELSE parts[1].pdf_context.len + SeparatorLen + JoinedLen(Tail(parts))

EmptyContext ==
    [context_info |-> << >>, sources_info |-> << >>, all_context |-> EmptyStr]

\* variant of extract_context that does not look at seen_pdfs
extract_context_any(retrieval, top_k) ==
    IF retrieval.outcome = "raise" THEN EmptyContext
    ELSE LET unique_contexts ==
                 UniqueContexts(
                     SubSeq(retrieval.results, 1,
                            Min(top_k, Len(retrieval.results))),
                     top_k, {}, << >>)
         IN  [context_info |->
                 [i \in 1..Min(top_k, Len(retrieval.results)) |->
                     [pdf_name |-> PdfNameOf(retrieval.results[i]),
                      pdf_context |-> retrieval.results[i].text,
                      score |-> retrieval.results[i].score]],
              sources_info |->
                 get_unique_sources(
                     [i \in 1..Len(unique_contexts) |->
                         PdfInfo(unique_contexts[i].pdf_name)], {}, << >>),
              all_context |-> Str("context", JoinedLen(unique_contexts))]

\* extract_context (lines 126-198); retrieval is what self.pinecone.query
\* did: raise, or return a ranked list
extract_context(retrieval, top_k) ==
    IF retrieval.outcome = "raise" THEN EmptyContext
    ELSE LET unique_contexts ==
                 UniqueContexts(retrieval.results, top_k, {}, << >>)
         IN  [context_info |-> unique_contexts,
              sources_info |->
                 get_unique_sources(
                     [i \in 1..Len(unique_contexts) |->
                         PdfInfo(unique_contexts[i].pdf_name)], {}, << >>),
              all_context |-> Str("context", JoinedLen(unique_contexts))]

\* ----- break_into_paragraphs (src/utils/text_processing.py, lines 6-60).
\* A text is a sequence of paragraphs (the pieces between '\n\n'); a
\* paragraph is the sequence of the lengths of its lines, which carry no
\* surrounding blanks; 0 is an empty line, found at the ends of a paragraph
\* only, where para.strip() removes it.
\* para.strip(): the paragraph without its empty lines
RECURSIVE NonBlank(_)
NonBlank(lines) ==
    IF lines = << >> THEN << >>
    ELSE IF Head(lines) = 0 THEN NonBlank(Tail(lines))
    ELSE <<Head(lines)>> \o NonBlank(Tail(lines))

\* len() of lines joined with '\n'
JoinedLinesLen(lines) ==
    IF lines = << >> THEN 0 ELSE SumSeq(lines) + (Len(lines) - 1)

\* variant of the loop of lines 39-55 that leaves the joining '\n' out of
\* the length it compares with max_length
RECURSIVE SplitLongParagraphNoNewline(_, _, _, _)
SplitLongParagraphNoNewline(lines, current, max_length, result) ==
    IF lines = << >>
    THEN IF current # << >> THEN Append(result, current) ELSE result
    ELSE LET line == Head(lines)
         IN  IF line = 0
             THEN SplitLongParagraphNoNewline(Tail(lines), current,
                                              max_length, result)
             ELSE IF JoinedLinesLen(current) + line > max_length
             THEN SplitLongParagraphNoNewline(Tail(lines), <<line>>, max_length,
                      IF current # << >> THEN Append(result, current)
                      ELSE result)
             ELSE SplitLongParagraphNoNewline(Tail(lines),
                      Append(current, line), max_length, result)

\* the loop of lines 39-55
RECURSIVE SplitLongParagraph(_, _, _, _)
SplitLongParagraph(lines, current, max_length, result) ==
    IF lines = << >>
    THEN IF current # << >> THEN Append(result, current) ELSE result
    ELSE LET line == Head(lines)
         IN  IF line = 0
             THEN SplitLongParagraph(Tail(lines), current, max_length, result)
             ELSE IF JoinedLinesLen(current) + line + 1 > max_length
             THEN SplitLongParagraph(Tail(lines), <<line>>, max_length,
                      IF current # << >> THEN Append(result, current)
                      ELSE result)
             ELSE SplitLongParagraph(Tail(lines), Append(current, line),
                                     max_length, result)

RECURSIVE BreakParagraphs(_, _)
BreakParagraphs(paragraphs, max_length) ==
    IF paragraphs = << >> THEN << >>
    ELSE LET para == NonBlank(Head(paragraphs))
             rest == BreakParagraphs(Tail(paragraphs), max_length)
         IN  IF para = << >> THEN rest
             ELSE IF JoinedLinesLen(para) > max_length
             THEN SplitLongParagraph(para, << >>, max_length, << >>) \o rest
             ELSE <<para>> \o rest

break_into_paragraphs(text, max_length) ==
    [text EXCEPT !.paras = BreakParagraphs(text.paras, max_length)]

\* ----- generate_response (lines 200-264)
MarkerPhrases ==
    {"don't have that information", "not in my knowledge base",
     "cannot find", "no relevant information"}

\* the text returned when generation fails
Apology == [kind |-> "apology", phrase |-> "none", paras |-> <<<<80>>>>]

NoText == [kind |-> "none", phrase |-> "none", paras |-> << >>]

\* variant of generate_response whose handler leaves the flag as computed
\* from the context
generate_response_flag_kept(ctx, completion, source) ==
    IF completion.outcome = "raise"
    THEN [response |-> Apology, within_knowledge_base |-> Truthy(ctx)]
    ELSE [response |->
             IF source = "WA"
             THEN break_into_paragraphs(completion.text, WhatsAppMaxLength)
             ELSE completion.text,
          within_knowledge_base |->
             Truthy(ctx) /\ Lower(completion.text.phrase) \notin MarkerPhrases]

\* variant of generate_response that looks for the marker phrases in the
\* response as written, without lowering it
generate_response_case_sensitive(ctx, completion, source) ==
    IF completion.outcome = "raise"
    THEN [response |-> Apology, within_knowledge_base |-> FALSE]
    ELSE [response |->
             IF source = "WA"
             THEN break_into_paragraphs(completion.text, WhatsAppMaxLength)
             ELSE completion.text,
          within_knowledge_base |->
             Truthy(ctx) /\ completion.text.phrase \notin MarkerPhrases]

\* phrase is the marker phrase the completion text contains, as written in
\* it, or "none".  When the completion call raises, the handler returns the
\* apology and False.
generate_response(ctx, completion, source) ==
    IF completion.outcome = "raise"
    THEN [response |-> Apology, within_knowledge_base |-> FALSE]
    ELSE [response |->
             IF source = "WA"
             THEN break_into_paragraphs(completion.text, WhatsAppMaxLength)
             ELSE completion.text,
          within_knowledge_base |->
             Truthy(ctx) /\ Lower(completion.text.phrase) \notin MarkerPhrases]

\* ----- chat (lines 266-380) as a sequence of steps
HistoryLimit == 50        \* get_session_history(session_id, limit=50)

ChatRequestArgs ==
    [session_id : RequestSessionIds, question : {"q"}, source : {"none", "WA"}]

NoChatRequest == [session_id |-> NoId, question |-> "", source |-> "none"]

AllChatSessionIds == {1} \cup {uuid4(n) : n \in 1..MaxTurns}

response_uuid4(n) == 200 + n

Chunk(pdf_name, source, len, score) ==
    [pdf_name |-> pdf_name, source |-> source,
     text |-> Str("chunk", len), score |-> score]

\* what self.pinecone.query does during a chat turn
ChatRetrievals ==
    { [outcome |-> "raise", results |-> << >>],
      [outcome |-> "ok", results |-> << >>],
      [outcome |-> "ok", results |-> <<Chunk("A", "missing", 0, 90)>>],
      [outcome |-> "ok",
       results |-> <<Chunk("A", "missing", 5, 90), Chunk("A", "missing", 6, 80),
                     Chunk("B", "missing", 7, 70)>>] }

\* what the completion call of query_refiner does during a chat turn
ChatRefinerCompletions ==
    { [outcome |-> "raise", lines |-> << >>],
      [outcome |-> "ok",
       lines |-> <<[key |-> "REQUIRES_RETRIEVAL:", val |-> "True"],
                   [key |-> "REFINED_QUERY:", val |-> "refined question"]>>],
      [outcome |-> "ok",
       lines |-> <<[key |-> "REQUIRES_RETRIEVAL:", val |-> "False"]>>] }

\* what the completion call of generate_response does during a chat turn
ChatGenerations ==
    { [outcome |-> "raise", text |-> NoText],
      [outcome |-> "ok",
       text |-> [kind |-> "llm", phrase |-> "none", paras |-> <<<<40>>>>]],
      [outcome |-> "ok",
       text |-> [kind |-> "llm", phrase |-> "Cannot Find", paras |-> <<<<40>>>>]],
      [outcome |-> "ok",
       text |-> [kind |-> "llm", phrase |-> "none",
                 paras |-> <<<<0, 600, 600>>>>]] }

NoChatResponse ==
    [returned |-> FALSE, session_id |-> NoId, response |-> NoText,
     response_id |-> NoId, contextInfo |-> << >>, sources |-> << >>,
     within_knowledge_base |-> FALSE]

NoRefinement == [requires_retrieval |-> FALSE, refined_query |-> ""]

NoGeneration == [response |-> NoText, within_knowledge_base |-> FALSE]

InitChat ==
    /\ chatbot_sessions = [s \in AllChatSessionIds |-> [exists |-> FALSE, last_message_at |-> 0]]
    /\ chatbot_messages = << >>
    /\ cpc = "idle"
    /\ chat_request = NoChatRequest
    /\ chat_session_id = NoId
    /\ response_id = NoId
    /\ conversation_string = 0
    /\ refined = NoRefinement
    /\ context_data = EmptyContext
    /\ context_info = << >>
    /\ sources_info = << >>
    /\ context = EmptyStr
    /\ generated = NoGeneration
    /\ chat_calls = << >>
    /\ chat_response = NoChatResponse
    /\ chat_error = "none"
    /\ nturns = 0

InitFn ==
    /\ fn_in = "none"
    /\ fn_out = "none"
    /\ fn_pc = "unused"

dbChatVars == <<chatbot_sessions, chatbot_messages>>
turnVars == <<chat_request, chat_session_id, response_id, nturns>>
retrVars == <<context_data, context_info, sources_info, context>>

\* lines 277-279: a turn starts; session_id is the given one or a fresh uuid
ReceiveChat ==
    /\ cpc \in {"idle", "done", "failed"}
    /\ nturns < MaxTurns
    /\ \E r \in ChatRequestArgs :
          /\ chat_request' = r
          /\ chat_session_id' =
                IF r.session_id # NoId THEN r.session_id ELSE uuid4(nturns + 1)
    /\ response_id' = response_uuid4(nturns + 1)
    /\ nturns' = nturns + 1
    /\ conversation_string' = 0
    /\ refined' = NoRefinement
    /\ context_data' = EmptyContext
    /\ context_info' = << >>
    /\ sources_info' = << >>
    /\ context' = EmptyStr
    /\ generated' = NoGeneration
    /\ chat_calls' = << >>
    /\ chat_response' = NoChatResponse
    /\ chat_error' = "none"
    /\ cpc' = "create_session"
    /\ UNCHANGED <<dbChatVars, evalVars, fnVars, followupVars, infraVars>>

\* the handler of chat (lines 378-380) re-raises
ChatFailed(kind) ==
    /\ cpc' = "failed"
    /\ chat_error' = kind
    /\ chat_response' = NoChatResponse

\* chatbot_sessions is keyed by session_id: an INSERT succeeds only when no
\* row has the id
SessionKeyFree(sid) == ~chatbot_sessions[sid].exists

\* lines 289-296 and ChatbotDB.create_session: the INSERT succeeds
ChatCreateSession ==
    /\ cpc = "create_session"
    /\ SessionKeyFree(chat_session_id)
    /\ chatbot_sessions' =
          [chatbot_sessions EXCEPT ![chat_session_id] =
              [exists |-> TRUE, last_message_at |-> Len(chatbot_messages)]]
    /\ cpc' = "get_conversations"
    /\ UNCHANGED <<chatbot_messages, turnVars, conversation_string, refined,
                   retrVars, generated, chat_calls, chat_response, chat_error,
                   evalVars, fnVars, followupVars, infraVars>>

\* variant of the handler of lines 297-299 that lets the DatabaseError of
\* create_session end the turn
ChatCreateSessionFatal ==
    /\ cpc = "create_session"
    /\ ChatFailed("DatabaseError")
    /\ UNCHANGED <<dbChatVars, turnVars, conversation_string, refined,
                   retrVars, generated, chat_calls, evalVars, fnVars, followupVars, infraVars>>

\* lines 297-299: create_session raised (the row exists, or the database
\* failed) and the bare except swallows it
ChatCreateSessionRaises ==
    /\ cpc = "create_session"
    /\ cpc' = "get_conversations"
    /\ UNCHANGED <<dbChatVars, turnVars, conversation_string, refined,
                   retrVars, generated, chat_calls, chat_response, chat_error,
                   evalVars, fnVars, followupVars, infraVars>>

\* number of stored messages of a session, at most limit
SessionHistoryLen(sid, limit) ==
    Min(limit, Cardinality({i \in 1..Len(chatbot_messages) :
                               chatbot_messages[i].session_id = sid}))

\* lines 302-307; get_user_conversations returns '' when the read fails
GetUserConversations ==
    /\ cpc = "get_conversations"
    /\ \/ conversation_string' = SessionHistoryLen(chat_session_id, HistoryLimit)
       \/ conversation_string' = 0
    /\ cpc' = "save_user_message"
    /\ UNCHANGED <<dbChatVars, turnVars, refined, retrVars, generated,
                   chat_calls, chat_response, chat_error, evalVars, fnVars, followupVars, infraVars>>

\* json.dumps(x) if x else None, for the two JSON columns of save_message
ContextColumn(given, info, sources) ==
    [null |-> ~given, contextInfo |-> info, sources |-> sources]

SourcesColumn(sources) ==
    [null |-> (sources = << >>), list |-> sources]

\* ChatbotDB.save_message (lines 51-98): INSERT, then UPDATE of the
\* session's last_message_at (no row, no effect)
save_message(sid, role, content, rid, context_column, sources) ==
    /\ chatbot_messages' =
          Append(chatbot_messages,
                 [session_id |-> sid, role |-> role, content |-> content,
                  response_id |-> rid, context_data |-> context_column,
                  sources |-> SourcesColumn(sources)])
    /\ chatbot_sessions' =
          [chatbot_sessions EXCEPT ![sid].last_message_at =
              IF chatbot_sessions[sid].exists
              THEN Len(chatbot_messages) + 1 ELSE @]

QuestionText(q) == [kind |-> "question", phrase |-> q, paras |-> << >>]

\* variant of the inbound save that stores nothing
SaveUserMessageSkipped ==
    /\ cpc = "save_user_message"
    /\ cpc' = "query_refiner"
    /\ UNCHANGED <<dbChatVars, turnVars, conversation_string, refined,
                   retrVars, generated, chat_calls, chat_response, chat_error,
                   evalVars, fnVars, followupVars, infraVars>>

\* line 310
SaveUserMessage ==
    /\ cpc = "save_user_message"
    /\ save_message(chat_session_id, "user", QuestionText(chat_request.question),
                    NoId, ContextColumn(FALSE, << >>, << >>), << >>)
    /\ cpc' = "query_refiner"
    /\ UNCHANGED <<turnVars, conversation_string, refined, retrVars, generated,
                   chat_calls, chat_response, chat_error, evalVars, fnVars, followupVars, infraVars>>

\* line 310: save_message raises DatabaseError
SaveUserMessageRaises ==
    /\ cpc = "save_user_message"
    /\ ChatFailed("DatabaseError")
    /\ UNCHANGED <<dbChatVars, turnVars, conversation_string, refined,
                   retrVars, generated, chat_calls, evalVars, fnVars, followupVars, infraVars>>

\* lines 313-316
QueryRefiner ==
    /\ cpc = "query_refiner"
    /\ \E completion \in ChatRefinerCompletions :
          /\ refined' = query_refiner(chat_request.question, completion)
          /\ chat_calls' = Append(chat_calls,
                [op |-> "query_refiner", outcome |-> completion.outcome])
    /\ cpc' = "extract_context"
    /\ UNCHANGED <<dbChatVars, turnVars, conversation_string, retrVars,
                   generated, chat_response, chat_error, evalVars, fnVars, followupVars, infraVars>>

\* variant of the retrieval step in which a failure of the retriever ends
\* the turn
ExtractContextRaising ==
    /\ cpc = "extract_context"
    /\ IF refined.requires_retrieval
       THEN \E retrieval \in ChatRetrievals :
               LET data == extract_context(retrieval, ChatTopK)
               IN  /\ context_data' = data
                   /\ context_info' = data.context_info
                   /\ sources_info' = data.sources_info
                   /\ context' = data.all_context
                   /\ chat_calls' = Append(chat_calls,
                         [op |-> "pinecone.query", outcome |-> retrieval.outcome])
                   /\ IF retrieval.outcome = "raise"
                      THEN ChatFailed("RetrievalError")
                      ELSE /\ cpc' = "generate_response"
                           /\ UNCHANGED <<chat_response, chat_error>>
       ELSE /\ cpc' = "generate_response"
            /\ UNCHANGED <<retrVars, chat_calls, chat_response, chat_error>>
    /\ UNCHANGED <<dbChatVars, turnVars, conversation_string, refined,
                   generated, evalVars, fnVars, followupVars, infraVars>>

\* lines 319-327
ExtractContext ==
    /\ cpc = "extract_context"
    /\ IF refined.requires_retrieval
       THEN \E retrieval \in ChatRetrievals :
               LET data == extract_context(retrieval, ChatTopK)
               IN  /\ context_data' = data
                   /\ context_info' = data.context_info
                   /\ sources_info' = data.sources_info
                   /\ context' = data.all_context
                   /\ chat_calls' = Append(chat_calls,
                         [op |-> "pinecone.query", outcome |-> retrieval.outcome])
       ELSE UNCHANGED <<retrVars, chat_calls>>
    /\ cpc' = "generate_response"
    /\ UNCHANGED <<dbChatVars, turnVars, conversation_string, refined,
                   generated, chat_response, chat_error, evalVars, fnVars, followupVars, infraVars>>

\* lines 330-336
GenerateResponse ==
    /\ cpc = "generate_response"
    /\ \E completion \in ChatGenerations :
          /\ generated' = generate_response(context, completion, chat_request.source)
          /\ chat_calls' = Append(chat_calls,
                [op |-> "generate_response", outcome |-> completion.outcome])
    /\ cpc' = "clear_context"
    /\ UNCHANGED <<dbChatVars, turnVars, conversation_string, refined,
                   retrVars, chat_response, chat_error, evalVars, fnVars, followupVars, infraVars>>

\* variant of ClearContext that empties context_info only
ClearContextInfoOnly ==
    /\ cpc = "clear_context"
    /\ context_info' = IF ~generated.within_knowledge_base THEN << >> ELSE context_info
    /\ cpc' = "save_assistant_message"
    /\ UNCHANGED <<dbChatVars, turnVars, conversation_string, refined,
                   context_data, sources_info, context, generated, chat_calls,
                   chat_response, chat_error, evalVars, fnVars, followupVars, infraVars>>

\* lines 339-341
ClearContext ==
    /\ cpc = "clear_context"
    /\ context_info' = IF ~generated.within_knowledge_base THEN << >> ELSE context_info
    /\ sources_info' = IF ~generated.within_knowledge_base THEN << >> ELSE sources_info
    /\ cpc' = "save_assistant_message"
    /\ UNCHANGED <<dbChatVars, turnVars, conversation_string, refined,
                   context_data, context, generated, chat_calls,
                   chat_response, chat_error, evalVars, fnVars, followupVars, infraVars>>

\* lines 344-356
SaveAssistantMessage ==
    /\ cpc = "save_assistant_message"
    /\ save_message(chat_session_id, "assistant", generated.response,
                    response_id, ContextColumn(TRUE, context_info, sources_info),
                    sources_info)
    /\ cpc' = "build_response"
    /\ UNCHANGED <<turnVars, conversation_string, refined, retrVars, generated,
                   chat_calls, chat_response, chat_error, evalVars, fnVars, followupVars, infraVars>>

\* lines 349-356: save_message raises DatabaseError
SaveAssistantMessageRaises ==
    /\ cpc = "save_assistant_message"
    /\ ChatFailed("DatabaseError")
    /\ UNCHANGED <<dbChatVars, turnVars, conversation_string, refined,
                   retrVars, generated, chat_calls, evalVars, fnVars, followupVars, infraVars>>

\* lines 359-376
BuildResponse ==
    /\ cpc = "build_response"
    /\ chat_response' =
          [returned |-> TRUE, session_id |-> chat_session_id,
           response |-> generated.response, response_id |-> response_id,
           contextInfo |-> context_info, sources |-> sources_info,
           within_knowledge_base |-> generated.within_knowledge_base]
    /\ cpc' = "done"
    /\ UNCHANGED <<dbChatVars, turnVars, conversation_string, refined,
                   retrVars, generated, chat_calls, chat_error, evalVars, fnVars, followupVars, infraVars>>

NextChat ==
    \/ ReceiveChat
    \/ ChatCreateSession
    \/ ChatCreateSessionRaises
    \/ GetUserConversations
    \/ SaveUserMessage
    \/ SaveUserMessageRaises
    \/ QueryRefiner
    \/ ExtractContext
    \/ GenerateResponse
    \/ ClearContext
    \/ SaveAssistantMessage
    \/ SaveAssistantMessageRaises
    \/ BuildResponse

\* ======================================================================
\* query_refiner and extract_context applied to enumerated inputs
\* ======================================================================
MaxRefinerLines == 2  \* lines in a refinement completion
MaxResults == 5       \* length of a ranked retrieval result
MaxTopK == 3          \* largest top_k

RECURSIVE SeqsUpTo(_, _)
SeqsUpTo(S, n) ==
    IF n = 0 THEN {<< >>}
    ELSE LET shorter == SeqsUpTo(S, n - 1)
         IN  shorter \cup {Append(q, x) : q \in {t \in shorter : Len(t) = n - 1}, x \in S}

RefinerQueries == {"q", "and what about it?"}

RefinerInputs ==
    { [query |-> q, completion |-> [outcome |-> "raise", lines |-> << >>]] :
          q \in RefinerQueries }
    \cup { [query |-> q, completion |-> [outcome |-> "ok", lines |-> l]] :
              q \in RefinerQueries, l \in SeqsUpTo(RefinerLines, MaxRefinerLines) }

InitRefiner ==
    /\ InitEval /\ InitChat /\ InitFollowup /\ InitInfra
    /\ fn_in \in RefinerInputs
    /\ fn_out = NoRefinement
    /\ fn_pc = "ready"

ApplyQueryRefiner ==
    /\ fn_pc = "ready"
    /\ fn_out' = query_refiner(fn_in.query, fn_in.completion)
    /\ fn_pc' = "done"
    /\ UNCHANGED <<fn_in, evalVars, chatVars, followupVars, infraVars>>

NextRefiner == ApplyQueryRefiner

SpecRefiner == InitRefiner /\ [][NextRefiner]_vars

\* metadata of a retrieved chunk: the document name under 'pdf_name', under
\* 'source' only, or under neither
ChunkMetadata ==
    { [pdf_name |-> "A", source |-> "missing"],
      [pdf_name |-> "B", source |-> "A"],
      [pdf_name |-> "missing", source |-> "C"],
      [pdf_name |-> "missing", source |-> "missing"] }

\* a ranked result: the chunk at rank i has a text and a score of its own
RankedResults(metas) ==
    [i \in 1..Len(metas) |->
        Chunk(metas[i].pdf_name, metas[i].source, 10 + i, 100 - i)]

ContextInputs ==
    { [retrieval |-> [outcome |-> "raise", results |-> << >>], top_k |-> k] :
         k \in 0..MaxTopK }
    \cup { [retrieval |-> [outcome |-> "ok", results |-> RankedResults(m)],
            top_k |-> k] :
              m \in SeqsUpTo(ChunkMetadata, MaxResults), k \in 0..MaxTopK }

InitContext ==
    /\ InitEval /\ InitChat /\ InitFollowup /\ InitInfra
    /\ fn_in \in ContextInputs
    /\ fn_out = EmptyContext
    /\ fn_pc = "ready"

ApplyExtractContext ==
    /\ fn_pc = "ready"
    /\ fn_out' = extract_context(fn_in.retrieval, fn_in.top_k)
    /\ fn_pc' = "done"
    /\ UNCHANGED <<fn_in, evalVars, chatVars, followupVars, infraVars>>

NextContext == ApplyExtractContext

SpecContext == InitContext /\ [][NextContext]_vars

\* ======================================================================
\* break_into_paragraphs applied to enumerated inputs
\* ======================================================================
MaxParagraphs == 2    \* paragraphs of a text
MaxParaLines == 3     \* lines of a paragraph

\* lengths of lines: one of which two fit together under the larger limit
\* and, for the '\n' between them, just not under the smaller; one that is
\* longer than both limits by itself
LineLengths == {400, 1001}

\* max_length: a configured limit and the one chat passes
ParagraphLimits == {800, WhatsAppMaxLength}

ParagraphInputs ==
    [text : [kind : {"llm"}, phrase : {"none"},
             paras : SeqsUpTo(SeqsUpTo(LineLengths, MaxParaLines),
                              MaxParagraphs)],
     max_length : ParagraphLimits]

InitParagraphs ==
    /\ InitEval /\ InitChat /\ InitFollowup /\ InitInfra
    /\ fn_in \in ParagraphInputs
    /\ fn_out = NoText
    /\ fn_pc = "ready"

ApplyBreakIntoParagraphs ==
    /\ fn_pc = "ready"
    /\ fn_out' = break_into_paragraphs(fn_in.text, fn_in.max_length)
    /\ fn_pc' = "done"
    /\ UNCHANGED <<fn_in, evalVars, chatVars, followupVars, infraVars>>

NextParagraphs == ApplyBreakIntoParagraphs

SpecParagraphs == InitParagraphs /\ [][NextParagraphs]_vars

\* ======================================================================
\* parse_analysis_response (src/core/evaluator.py, lines 156-230) applied
\* to enumerated inputs
\* ======================================================================
\* A response text is a sequence of lines.  A line is
\*     ["**" head "**:"] ["- "] text [" **...** ..."]
\* head:  the name between the asterisks of a heading the line starts
\*        with, or "none";
\* dash:  the rest of the line, stripped, starts with '-';
\* text:  the characters after that up to the first "**" in them (to the
\*        end of the line without one), stripped of surrounding blanks;
\* bold:  a "**" follows the text on the same line.
MaxLines == 3         \* lines of a response outside the prompt's format
MaxBullets == 2       \* bullets under one heading of a formatted response

Line(head, dash, text, bold) ==
    [head |-> head, dash |-> dash, text |-> text, bold |-> bold]

BlankLine == Line("none", FALSE, "", FALSE)

Heading(name) == Line(name, FALSE, "", FALSE)

Bullet(text) == Line("none", TRUE, text, FALSE)

\* str.upper() on the heading names the model uses (re.IGNORECASE)
Upper(s) ==
    CASE s = "Score" -> "SCORE"
      [] s = "Strengths" -> "STRENGTHS"
      [] OTHER -> s

\* float(group(1)) of \[?(\d+(?:\.\d+)?) matched at the start of a text,
\* NoScore where the pattern does not match there
NumberPrefix(text) ==
    CASE text = "77" -> 77
      [] text = "150" -> 150
      [] text = "[92]" -> 92
      [] OTHER -> NoScore

\* line.strip('- ').strip() on the texts the model uses
StripBullet(text) ==
    CASE text = "-5 margin" -> "5 margin"
      [] text = "scope -" -> "scope"
      [] OTHER -> text

\* the match of \s*\[?(\d+(?:\.\d+)?) right after the colon of the heading
\* at line i: on the rest of that line or, when the rest is blank, after
\* the blank lines that follow
RECURSIVE NumberAfterBlanks(_, _)
NumberAfterBlanks(lines, j) ==
    IF j > Len(lines) THEN NoScore
    ELSE IF lines[j] = BlankLine THEN NumberAfterBlanks(lines, j + 1)
    ELSE IF lines[j].head # "none" \/ lines[j].dash THEN NoScore
    ELSE NumberPrefix(lines[j].text)

ScoreAt(lines, i) ==
    IF lines[i].dash THEN NoScore
    ELSE IF lines[i].text # "" THEN NumberPrefix(lines[i].text)
    ELSE IF lines[i].bold THEN NoScore
    ELSE NumberAfterBlanks(lines, i + 1)

\* re.search(r'\*\*SCORE\*\*:\s*\[?(\d+(?:\.\d+)?)', ...): the leftmost
\* SCORE heading the whole pattern matches at (lines 169-172)
RECURSIVE FirstScore(_, _)
FirstScore(lines, i) ==
    IF i > Len(lines) THEN NoScore
    ELSE IF Upper(lines[i].head) = "SCORE" /\ ScoreAt(lines, i) # NoScore
    THEN ScoreAt(lines, i)
    ELSE FirstScore(lines, i + 1)

\* index of the leftmost heading with one of the names, 0 without one
RECURSIVE FirstHeading(_, _, _)
FirstHeading(lines, names, i) ==
    IF i > Len(lines) THEN 0
    ELSE IF Upper(lines[i].head) \in names THEN i
    ELSE FirstHeading(lines, names, i + 1)

\* group of (.*?)(?:\*\*|$) after the heading at line i, as lines: the
\* rest of the heading's line and the lines that follow, up to the first
\* "**" (the asterisks of the next heading, or of bold text in a line)
RECURSIVE CapturedLines(_, _)
CapturedLines(lines, j) ==
    IF j > Len(lines) THEN << >>
    ELSE IF lines[j].head # "none" THEN << >>
    ELSE IF lines[j].bold THEN <<lines[j]>>
    ELSE <<lines[j]>> \o CapturedLines(lines, j + 1)

Captured(lines, i) ==
    <<[lines[i] EXCEPT !.head = "none"]>>
        \o (IF lines[i].bold THEN << >> ELSE CapturedLines(lines, i + 1))

\* [line.strip('- ').strip() for line in ... if line.strip().startswith('-')]
RECURSIVE BulletItems(_)
BulletItems(captured) ==
    IF captured = << >> THEN << >>
    ELSE IF Head(captured).dash
    THEN <<[text |-> StripBullet(Head(captured).text), bold |-> FALSE]>>
             \o BulletItems(Tail(captured))
    ELSE BulletItems(Tail(captured))

\* lines 175-179, 182-186, 189-193
SectionItems(lines, names) ==
    LET i == FirstHeading(lines, names, 1)
    IN  IF i = 0 THEN << >> ELSE BulletItems(Captured(lines, i))

\* str.strip() of a text given as lines: without its blank lines at both ends
RECURSIVE StripLeading(_)
StripLeading(lines) ==
    IF lines # << >> /\ Head(lines) = BlankLine
    THEN StripLeading(Tail(lines)) ELSE lines

RECURSIVE StripTrailing(_)
StripTrailing(lines) ==
    IF lines # << >> /\ lines[Len(lines)] = BlankLine
    THEN StripTrailing(SubSeq(lines, 1, Len(lines) - 1)) ELSE lines

\* lines 196-199
Content(lines) ==
    LET i == FirstHeading(lines, {"DETAILED ANALYSIS"}, 1)
    IN  IF i = 0 THEN lines
        ELSE StripTrailing(StripLeading(
                 <<[lines[i] EXCEPT !.head = "none"]>>
                     \o SubSeq(lines, i + 1, Len(lines))))

SectionTypes == {"P_Internal", "P_External", "P_Delta", "P_Other", "list"}

\* "list" stands for a section type that is not hashable
Hashable(section_type) == section_type # "list"

\* titles.get(section_type, 'Analysis') (lines 202-207)
Title(section_type) ==
    CASE section_type = "P_Internal" -> "Internal Consistency Analysis"
      [] section_type = "P_External" -> "ToR Alignment Analysis"
      [] section_type = "P_Delta" -> "Gap Analysis"
      [] OTHER -> "Analysis"

\* f'{section_type} Analysis' (line 224)
FallbackTitle(section_type) ==
    CASE section_type = "P_Internal" -> "P_Internal Analysis"
      [] section_type = "P_External" -> "P_External Analysis"
      [] section_type = "P_Delta" -> "P_Delta Analysis"
      [] section_type = "P_Other" -> "P_Other Analysis"
      [] OTHER -> "['x'] Analysis"

\* the body of the try block raises when re.search is handed None in place
\* of a text, or when the dict lookup hashes an unhashable section type
ParseBodyRaises(response, section_type) ==
    response.null \/ ~Hashable(section_type)

\* variant of parse_analysis_response without the handler of lines 219-230
parse_analysis_response_unguarded(response, section_type) ==
    [raised |-> ParseBodyRaises(response, section_type),
     section_type |-> section_type,
     title |-> Title(section_type),
     content |-> [response EXCEPT !.lines = Content(response.lines)],
     score |-> FirstScore(response.lines, 1),
     gaps |-> SectionItems(response.lines,
                           {"GAPS", "CRITICAL GAPS", "MINOR GAPS"}),
     strengths |-> SectionItems(response.lines, {"STRENGTHS"}),
     recommendations |-> SectionItems(response.lines, {"RECOMMENDATIONS"})]

\* response is [null, lines]: null for None in place of a text.  The score
\* is NoScore for None.
parse_analysis_response(response, section_type) ==
    IF ParseBodyRaises(response, section_type)
    THEN [raised |-> FALSE,
          section_type |-> section_type,
          title |-> FallbackTitle(section_type),
          content |-> response,
          score |-> NoScore,
          gaps |-> << >>,
          strengths |-> << >>,
          recommendations |-> << >>]
    ELSE [raised |-> FALSE,
          section_type |-> section_type,
          title |-> Title(section_type),
          content |-> [response EXCEPT !.lines = Content(response.lines)],
          score |-> FirstScore(response.lines, 1),
          gaps |-> SectionItems(response.lines,
                                {"GAPS", "CRITICAL GAPS", "MINOR GAPS"}),
          strengths |-> SectionItems(response.lines, {"STRENGTHS"}),
          recommendations |->
              SectionItems(response.lines, {"RECOMMENDATIONS"})]

\* ----- inputs
\* lines of responses that do not follow the prompt's format
FreeLines ==
    { BlankLine,
      Line("none", FALSE, "plain prose", FALSE),
      Line("none", FALSE, "77", FALSE),
      Bullet("a"),
      Line("SCORE", FALSE, "77", FALSE),
      Line("Score", FALSE, "[92]", FALSE),
      Line("SCORE", FALSE, "", FALSE),
      Heading("STRENGTHS"),
      Heading("MINOR GAPS"),
      Line("DETAILED ANALYSIS", FALSE, "some text", FALSE) }

\* the format of src/services/prompts.py (lines 67-78): the score, the
\* three bullet lists and the analysis text
NoParts ==
    [score |-> "", strengths |-> << >>, gaps |-> << >>,
     recommendations |-> << >>, analysis |-> << >>]

CanonicalLines(p) ==
    <<Line("SCORE", FALSE, p.score, FALSE), Heading("STRENGTHS")>>
        \o p.strengths
        \o <<Heading("GAPS")>> \o p.gaps
        \o <<Heading("RECOMMENDATIONS")>> \o p.recommendations
        \o <<Heading("DETAILED ANALYSIS")>> \o p.analysis

\* the formatted responses with up to n bullets under a heading
CanonicalParts(n) ==
    [score : {"77", "150"},
     strengths : SeqsUpTo({Bullet("a"), Bullet("b"),
                           Line("none", TRUE, "a", TRUE)}, n),
     gaps : SeqsUpTo({Bullet("c"), Bullet("scope -")}, n),
     recommendations : SeqsUpTo({Bullet("d"), Bullet("-5 margin")}, n),
     analysis : {<<Line("none", FALSE, "some text", FALSE)>>, << >>}]

\* the texts of up to n lines, None, and the formatted responses
ParserInputs(n) ==
    { [response |-> [null |-> FALSE, lines |-> l], section_type |-> st,
       canonical |-> FALSE, parts |-> NoParts] :
          l \in SeqsUpTo(FreeLines, n), st \in SectionTypes }
    \cup { [response |-> [null |-> TRUE, lines |-> << >>], section_type |-> st,
            canonical |-> FALSE, parts |-> NoParts] : st \in SectionTypes }
    \cup { [response |-> [null |-> FALSE, lines |-> CanonicalLines(p)],
            section_type |-> "P_Internal", canonical |-> TRUE, parts |-> p] :
              p \in CanonicalParts(MaxBullets) }

NoSection ==
    [raised |-> FALSE, section_type |-> "", title |-> "",
     content |-> [null |-> TRUE, lines |-> << >>], score |-> NoScore,
     gaps |-> << >>, strengths |-> << >>, recommendations |-> << >>]

InitParser ==
    /\ InitEval /\ InitChat /\ InitFollowup /\ InitInfra
    /\ fn_in \in ParserInputs(MaxLines)
    /\ fn_out = NoSection
    /\ fn_pc = "ready"

ApplyParseAnalysisResponse ==
    /\ fn_pc = "ready"
    /\ fn_out' = parse_analysis_response(fn_in.response, fn_in.section_type)
    /\ fn_pc' = "done"
    /\ UNCHANGED <<fn_in, evalVars, chatVars, followupVars, infraVars>>

NextParser == ApplyParseAnalysisResponse

SpecParser == InitParser /\ [][NextParser]_vars

\* ======================================================================
\* Specifications
\* ======================================================================
Init == InitEval /\ InitChat /\ InitFn /\ InitFollowup /\ InitInfra

Next ==
    \/ ReceiveRequest
    \/ ProcessDocuments
    \/ CreateSession
    \/ CreateSessionFails
    \/ GetGuidelines
    \/ GetGuidelinesFails
    \/ SummarizeProposal
    \/ SummarizeTor
    \/ SubmitAnalyses
    \/ RunInternalTask
    \/ RunExternalTask
    \/ JoinInternal
    \/ JoinInternalTimeout
    \/ JoinExternal
    \/ JoinExternalTimeout
    \/ PoolShutdown
    \/ PoolShutdownRaising
    \/ ReadInsights

Spec == Init /\ [][Next]_vars

SpecChat == Init /\ [][NextChat]_vars

\* ----- the rate limiter and the connection pool, each on its own
InitRateLimiter ==
    /\ InitEval /\ InitChat /\ InitFn /\ InitFollowup
    /\ InitLimiterAny /\ InitPool

SpecLimiter == InitRateLimiter /\ [][NextLimiter]_vars

SpecPool == Init /\ [][NextPool]_vars

\* ----- evaluate and answer_followup on a store that holds a session
\* The request of a first evaluate call, on a session id given by the caller
FirstRequest ==
    [session_id |-> 1, organization_id |-> "none",
     proposal_text_input |-> [arg |-> "str", text |-> Str("doc", 1)],
     proposal_file_data |-> "none",
     tor_text_input |-> [arg |-> "str", text |-> Str("tor", SummaryFallbackLen + 1)],
     tor_file_data |-> "none"]

\* The state in which that call leaves the evaluator: the row of the
\* session is inserted, both summaries are made, and the call has failed at
\* line 368.
AfterFirstEvaluate ==
    /\ evaluator_sessions =
          [s \in AllSessionIds |->
              IF s = 1
              THEN NewRow(Prefix(Str("doc", 1), StoredTextLen),
                          Prefix(Str("tor", SummaryFallbackLen + 1), StoredTextLen))
              ELSE NoRow]
    /\ epc = "failed"
    /\ request = FirstRequest
    /\ session_id = 1
    /\ proposal_text = Str("doc", 1)
    /\ tor_text = Str("tor", SummaryFallbackLen + 1)
    /\ guidelines = EmptyStr
    /\ proposal_summary = Str("llm_summary", 1)
    /\ tor_summary = Str("llm_summary", 1)
    /\ internal_future = "coroutine"
    /\ external_future = "coroutine"
    /\ internal_result = "coroutine"
    /\ external_result = "coroutine"
    /\ join_timeout = "none"
    /\ llm_calls = << [op |-> "proposal_summary", outcome |-> "ok",
                       text |-> Str("llm_summary", 1)],
                      [op |-> "tor_summary", outcome |-> "ok",
                       text |-> Str("llm_summary", 1)] >>
    /\ guideline_lookups = 0
    /\ session_created = TRUE
    /\ eval_response = "none"
    /\ eval_error = "AttributeError"
    /\ nrequests = 1

InitSessions ==
    AfterFirstEvaluate /\ InitChat /\ InitFn /\ InitFollowup /\ InitInfra

NextSessions ==
    \/ ReceiveRequest
    \/ ProcessDocuments
    \/ CreateSession
    \/ CreateSessionFails
    \/ GetGuidelines
    \/ GetGuidelinesFails
    \/ SummarizeProposal
    \/ SummarizeTor
    \/ SubmitAnalyses
    \/ RunInternalTask
    \/ RunExternalTask
    \/ JoinInternal
    \/ JoinInternalTimeout
    \/ JoinExternal
    \/ JoinExternalTimeout
    \/ PoolShutdown
    \/ PoolShutdownRaising
    \/ ReadInsights
    \/ AnswerFollowup

SpecSessions == InitSessions /\ [][NextSessions]_vars
\* summary is what a summarization step returns for text, given the
\* completion call it made: the provider's text when the call returned, a
\* prefix of text of at most 2000 characters when it raised
SummaryOrFallback(summary, text, call) ==
    /\ call.outcome = "ok" => summary = call.text
    /\ call.outcome = "raise" =>
          /\ summary.src = text.src
          /\ summary.len <= text.len
          /\ summary.len <= SummaryFallbackLen

\* C24: summarize_proposal and summarize_tor never raise: each of the two
\* steps goes on to the next step whatever its completion call does, with
\* the provider's text unchanged when the call returned and with a prefix
\* of the input text of at most 2000 characters when it raised.
SummarizationNeverRaises ==
    [][ /\ epc = "summarize_proposal" =>
              /\ epc' = "summarize_tor"
              /\ eval_error' = eval_error
              /\ Len(llm_calls') = Len(llm_calls) + 1
              /\ SummaryOrFallback(proposal_summary', proposal_text,
                                   llm_calls'[Len(llm_calls')])
        /\ epc = "summarize_tor" =>
              /\ epc' = "submit_analyses"
              /\ eval_error' = eval_error
              /\ Len(llm_calls') = Len(llm_calls) + 1
              /\ SummaryOrFallback(tor_summary', tor_text,
                                   llm_calls'[Len(llm_calls')])
      ]_vars

\* both completion calls raised; the ToR text is longer than 2000
\* characters and its summary is the first 2000 of them, the proposal text
\* is shorter and is its own summary
SummarizationNeverRaisesWitness ==
    /\ epc = "submit_analyses"
    /\ Len(llm_calls) = 2
    /\ llm_calls[1].outcome = "raise"
    /\ llm_calls[2].outcome = "raise"
    /\ tor_text.len > SummaryFallbackLen
    /\ tor_summary = [src |-> tor_text.src, len |-> SummaryFallbackLen]
    /\ proposal_text.len < SummaryFallbackLen
    /\ proposal_summary = proposal_text


\* ======================================================================
\* Properties of evaluate(), checked under Spec
\* ======================================================================
\* evaluate() has returned or raised
EvaluateEnded == epc \in {"done", "failed"}

\* the run got as far as submitting the two analyses
AnalysesSubmitted == internal_future # "none"

\* the row of the running request records completed results
SessionCompleted ==
    /\ session_id # NoId
    /\ evaluator_sessions[session_id].completed_at # "none"

\* C1: when the Internal branch of the fork raises at the join, evaluate
\* fails as a whole: save_evaluation_results is not executed (the session
\* is not marked completed), no EvaluatorResponse is returned and the
\* External result is not persisted, also when the External branch
\* succeeded.
InternalFailureFailsEvaluation ==
    join_timeout = "P_Internal" =>
        /\ epc \in {"pool_shutdown_raising", "failed"}
        /\ eval_response = "none"
        /\ ~ SessionCompleted
        /\ evaluator_sessions[session_id].external_analysis = "none"
        /\ evaluator_sessions[session_id].overall_score = "none"

InternalFailureWitness ==
    /\ epc = "failed"
    /\ join_timeout = "P_Internal"
    /\ external_future \notin {"none", "pending"}
    /\ eval_error = "TimeoutError"
    /\ evaluator_sessions[session_id].exists

\* C2 (as claimed): for every combination of null / non-null section
\* scores, evaluate persists and returns an overall score equal to the mean
\* of the non-null section scores (null when all three are null): a run
\* whose analyses were submitted and whose joins did not time out ends with
\* the three sections and that overall score in the session row and in the
\* response.
OverallScoreIsMeanOfSections ==
    (EvaluateEnded /\ AnalysesSubmitted /\ join_timeout = "none") =>
        /\ SessionCompleted
        /\ eval_response # "none"
        /\ LET row == evaluator_sessions[session_id]
               overall == OverallScore(<<row.internal_analysis.score,
                                         row.external_analysis.score,
                                         row.delta_analysis.score>>)
           IN  /\ row.overall_score = overall
               /\ eval_response.overall_score = overall

\* C3 (as claimed): when the completion call of the proposal summary raises
\* and every later completion call succeeds, evaluate uses a prefix of the
\* raw proposal text as the summary and still runs to completion: results
\* are persisted and an EvaluatorResponse is returned.
SummarizationFallbackCompletes ==
    ( /\ EvaluateEnded
      /\ Len(llm_calls) >= 1
      /\ llm_calls[1].op = "proposal_summary"
      /\ llm_calls[1].outcome = "raise"
      /\ \A i \in 2..Len(llm_calls) : llm_calls[i].outcome = "ok"
      /\ join_timeout = "none" ) =>
        /\ proposal_summary = Prefix(proposal_text, SummaryFallbackLen)
        /\ epc = "done"
        /\ eval_response # "none"
        /\ SessionCompleted

\* the request gives neither a text nor a file for the proposal, or neither
\* for the ToR
NeitherSupplied(r) ==
    \/ ~ TextGiven(r.proposal_text_input) /\ r.proposal_file_data = "none"
    \/ ~ TextGiven(r.tor_text_input) /\ r.tor_file_data = "none"

\* C7 (as claimed): a request that supplies neither text nor file for the
\* proposal (or for the ToR) fails with a validation error before any
\* external call: no session row is inserted, no guideline lookup is made
\* and no completion call is issued.
MissingDocumentRejectedFirst ==
    (epc # "idle" /\ NeitherSupplied(request)) =>
        /\ ~ session_created
        /\ guideline_lookups = 0
        /\ llm_calls = << >>

\* positions of evaluate at which a summarization or analysis step is
\* about to start, is running, or is over
AtOrPastSummarization ==
    epc \in {"summarize_proposal", "summarize_tor", "submit_analyses",
             "join_internal", "join_external", "pool_shutdown",
             "pool_shutdown_raising", "delta_insights"}

\* C8: the session row is created before the first completion call:
\* whenever a summarization or analysis step is about to start, has started
\* or has failed, the row of the session id exists.
SessionRowBeforeCompletionCalls ==
    (AtOrPastSummarization \/ Len(llm_calls) > 0 \/ AnalysesSubmitted) =>
        /\ session_id # NoId
        /\ evaluator_sessions[session_id].exists

SessionRowWitness ==
    /\ epc = "failed"
    /\ Len(llm_calls) = 2
    /\ llm_calls[1].outcome = "raise"
    /\ AnalysesSubmitted
    /\ evaluator_sessions[session_id].exists

\* C9 (as claimed): evaluate issues the Delta completion call, and only
\* after the Internal and the External completion calls have resolved with
\* parsed results; the Delta prompt carries the first 500 characters of the
\* content of each of the two results.
DeltaAfterInternalAndExternal ==
    (EvaluateEnded /\ AnalysesSubmitted /\ join_timeout = "none") =>
        \E i, j, k \in DOMAIN llm_calls :
            /\ llm_calls[i].op = "P_Internal" /\ llm_calls[i].outcome = "ok"
            /\ llm_calls[j].op = "P_External" /\ llm_calls[j].outcome = "ok"
            /\ llm_calls[k].op = "P_Delta"
            /\ i < k /\ j < k
            /\ llm_calls[k].internal_insights =
                   Prefix(llm_calls[i].content, InsightsLen)
            /\ llm_calls[k].external_insights =
                   Prefix(llm_calls[j].content, InsightsLen)

\* ======================================================================
\* Properties of chat(), checked under SpecChat
\* ======================================================================
\* the assistant message of the current turn, once saved
AssistantMessageSaved ==
    /\ chatbot_messages # << >>
    /\ chatbot_messages[Len(chatbot_messages)].role = "assistant"
    /\ chatbot_messages[Len(chatbot_messages)].response_id = response_id

LastMessage == chatbot_messages[Len(chatbot_messages)]

GenerationDone == cpc \in {"clear_context", "save_assistant_message",
                           "build_response", "done"}

\* C4: in a turn whose generation step gave within_knowledge_base = false,
\* the context list and the sources list handed to save_message for the
\* assistant message, and the ones of the returned ChatResponse, are empty,
\* whatever the retrieval step returned.
ContextSuppressed ==
    (GenerationDone /\ ~generated.within_knowledge_base) =>
        /\ cpc = "save_assistant_message" =>
              context_info = << >> /\ sources_info = << >>
        /\ cpc \in {"build_response", "done"} =>
              /\ AssistantMessageSaved
              /\ LastMessage.context_data.contextInfo = << >>
              /\ LastMessage.context_data.sources = << >>
              /\ LastMessage.sources.list = << >>
        /\ cpc = "done" =>
              /\ chat_response.returned
              /\ chat_response.contextInfo = << >>
              /\ chat_response.sources = << >>
              /\ ~chat_response.within_knowledge_base

\* a turn that retrieved contexts and sources, was answered outside the
\* knowledge base, and returned
ContextSuppressedWitness ==
    /\ cpc = "done"
    /\ chat_response.returned
    /\ ~generated.within_knowledge_base
    /\ context_data.context_info # << >>
    /\ context_data.sources_info # << >>
    /\ AssistantMessageSaved

GenerationRaised ==
    \E i \in 1..Len(chat_calls) :
        chat_calls[i] = [op |-> "generate_response", outcome |-> "raise"]

\* C10 as stated: when the completion call of the generation step raises,
\* chat raises, returns no ChatResponse and appends no assistant message.
GenerationFailureIsFatal ==
    GenerationRaised =>
        /\ ~chat_response.returned
        /\ ~AssistantMessageSaved
        /\ cpc # "done"

\* C10, as the code behaves: when the completion call of the generation
\* step raises, generate_response returns the apology text with
\* within_knowledge_base = false; chat goes on, saves the apology as the
\* assistant message with empty context and sources, and returns a
\* ChatResponse carrying it.  The turn fails only if that save raises.
GenerationFailureAbsorbed ==
    GenerationRaised =>
        /\ generated = [response |-> Apology, within_knowledge_base |-> FALSE]
        /\ cpc = "failed" => chat_error = "DatabaseError"
        /\ cpc \in {"build_response", "done"} =>
              /\ AssistantMessageSaved
              /\ LastMessage.content = Apology
              /\ LastMessage.context_data.contextInfo = << >>
              /\ LastMessage.sources.null
        /\ cpc = "done" =>
              /\ chat_response.returned
              /\ chat_response.response = Apology
              /\ ~chat_response.within_knowledge_base
              /\ chat_response.contextInfo = << >>
              /\ chat_response.sources = << >>

\* a turn whose generation call raised after a non-empty retrieval, and
\* which returned
GenerationFailureWitness ==
    /\ GenerationRaised
    /\ cpc = "done"
    /\ chat_response.returned
    /\ chat_response.response = Apology
    /\ Truthy(context)

RetrievalRaised ==
    \E i \in 1..Len(chat_calls) :
        chat_calls[i] = [op |-> "pinecone.query", outcome |-> "raise"]

GenerationInvoked ==
    \E i \in 1..Len(chat_calls) : chat_calls[i].op = "generate_response"

\* C11: when the retriever fails in a turn that requires retrieval, the
\* failure is absorbed: the turn goes on to generation with an empty
\* context, the assistant message is saved and the ChatResponse has empty
\* context and sources lists.  The turn can still fail, but only when
\* saving the assistant message raises a DatabaseError.
RetrievalFailureAbsorbed ==
    RetrievalRaised =>
        /\ refined.requires_retrieval
        /\ context = EmptyStr
        /\ context_info = << >> /\ sources_info = << >>
        /\ cpc \in {"generate_response", "clear_context",
                    "save_assistant_message", "build_response", "done",
                    "failed"}
        /\ cpc # "generate_response" => GenerationInvoked
        /\ cpc = "failed" => chat_error = "DatabaseError"
        /\ cpc \in {"build_response", "done"} =>
              /\ AssistantMessageSaved
              /\ LastMessage.content = generated.response
        /\ cpc = "done" =>
              /\ chat_response.returned
              /\ chat_response.contextInfo = << >>
              /\ chat_response.sources = << >>

\* a turn whose retrieval raised, whose generation call succeeded, and
\* which returned
RetrievalFailureWitness ==
    /\ RetrievalRaised
    /\ ~GenerationRaised
    /\ cpc = "done"
    /\ chat_response.returned
    /\ chat_response.response.kind = "llm"
    /\ AssistantMessageSaved

IsPrefix(s, t) == Len(s) <= Len(t) /\ SubSeq(t, 1, Len(s)) = s

\* the message chat saves for the user's question of the current turn
UserMessage ==
    [session_id |-> chat_session_id, role |-> "user",
     content |-> QuestionText(chat_request.question), response_id |-> NoId,
     context_data |-> ContextColumn(FALSE, << >>, << >>),
     sources |-> SourcesColumn(<< >>)]

UserMessageIsLast ==
    chatbot_messages # << >> /\ LastMessage = UserMessage

\* C12: the user's message is appended to the history before refinement,
\* retrieval and generation start, and stays there when a later step or
\* the save of the assistant message fails: the history only grows; the
\* turn leaves the inbound save either failed or with the user's message
\* appended; every refinement, retrieval or generation call is issued with
\* the user's message as the last entry of the history; and a failure after
\* the inbound save leaves the history as it is, ending with that message.
UserMessageSavedFirst ==
    [][ /\ IsPrefix(chatbot_messages, chatbot_messages')
        /\ (cpc = "save_user_message" /\ cpc' # "save_user_message") =>
              \/ cpc' = "failed" /\ chat_calls = << >>
                                 /\ chatbot_messages' = chatbot_messages
              \/ chatbot_messages' = Append(chatbot_messages, UserMessage)
        /\ (chat_calls' # chat_calls /\ chat_calls' # << >>) =>
              /\ UserMessageIsLast
              /\ chatbot_messages' = chatbot_messages
        /\ (cpc' = "failed" /\ cpc \notin {"failed", "save_user_message"}) =>
              /\ UserMessageIsLast
              /\ chatbot_messages' = chatbot_messages
      ]_vars

\* the save of the assistant message failed after refinement, retrieval and
\* generation; the user's message is the last entry of the history
UserMessageSavedFirstWitness ==
    /\ cpc = "failed"
    /\ chat_error = "DatabaseError"
    /\ GenerationInvoked
    /\ UserMessageIsLast

\* C13: resolve-or-create is idempotent: in a turn whose session id has a
\* row already, the create step does not fail the turn, changes nothing in
\* chatbot_sessions (the id keeps its one row), and the row exists after
\* the step.
SessionCreateIdempotent ==
    [][ (cpc = "create_session" /\ chatbot_sessions[chat_session_id].exists) =>
            /\ cpc' = "get_conversations"
            /\ chat_error' = "none"
            /\ chatbot_sessions' = chatbot_sessions
            /\ chatbot_sessions'[chat_session_id].exists
      ]_vars

\* the second turn on a session id given by the caller, past the create
\* step, with the row and a message of the first turn present
SessionCreateIdempotentWitness ==
    /\ nturns = 2
    /\ cpc = "get_conversations"
    /\ chat_request.session_id # NoId
    /\ chatbot_sessions[chat_session_id].exists
    /\ chatbot_messages # << >>
    /\ chatbot_messages[1].session_id = chat_session_id

\* the response text of the turn holds none of the marker phrases, whatever
\* the case they are written in
NoMarkerPhrase == Lower(generated.response.phrase) \notin MarkerPhrases

\* C17 (as claimed): the within_knowledge_base flag of a turn is true if and
\* only if the retrieved context is non-empty and the response holds none
\* of the marker phrases.
FlagIffContextAndNoMarker ==
    GenerationDone =>
        (generated.within_knowledge_base <=> (Truthy(context) /\ NoMarkerPhrase))

\* C17 (amended): the flag is true if and only if the completion call of
\* the generation step succeeded, the retrieved context is non-empty and
\* the response holds none of the marker phrases (matched without regard
\* to case); it is false on every turn where retrieval was skipped or
\* returned nothing, and the ChatResponse carries the same flag.
FlagIffGeneratedFromContext ==
    GenerationDone =>
        /\ generated.within_knowledge_base <=>
              (~GenerationRaised /\ Truthy(context) /\ NoMarkerPhrase)
        /\ (~refined.requires_retrieval \/ context_data.context_info = << >>)
              => ~generated.within_knowledge_base
        /\ cpc = "done" =>
              chat_response.within_knowledge_base
                  = generated.within_knowledge_base

\* a turn returned whose retrieval gave a non-empty context and whose
\* response holds a marker phrase in capitals
FlagWitness ==
    /\ cpc = "done"
    /\ chat_response.returned
    /\ Truthy(context)
    /\ context_data.context_info # << >>
    /\ generated.response.phrase = "Cannot Find"
    /\ ~chat_response.within_knowledge_base

\* the message chat saves for the assistant's answer of the current turn
AssistantMessage ==
    [session_id |-> chat_session_id, role |-> "assistant",
     content |-> generated.response, response_id |-> response_id,
     context_data |-> ContextColumn(TRUE, context_info, sources_info),
     sources |-> SourcesColumn(sources_info)]

\* no message stored so far carries the response id of the current turn
ResponseIdFresh ==
    \A i \in 1..Len(chatbot_messages) :
        chatbot_messages[i].response_id # response_id

\* C21 (as claimed): a turn appends to the history at its two saves only,
\* the user's message at the first and the assistant's message at the
\* second; the response id stored with the assistant's message is new and
\* is the one of the ChatResponse; the last-activity time of the session
\* is updated when the assistant's message is stored.
TurnAppendsTwoMessages ==
    [][ /\ (cpc = "save_user_message" /\ cpc' = "query_refiner") =>
              chatbot_messages' = Append(chatbot_messages, UserMessage)
        /\ (cpc = "save_assistant_message" /\ cpc' = "build_response") =>
              /\ chatbot_messages' = Append(chatbot_messages, AssistantMessage)
              /\ ResponseIdFresh
              /\ chatbot_sessions'[chat_session_id].exists
              /\ chatbot_sessions'[chat_session_id].last_message_at
                    = Len(chatbot_messages')
        /\ (cpc' \notin {"query_refiner", "build_response"} \/ cpc' = cpc) =>
              chatbot_messages' = chatbot_messages
        /\ cpc' = "done" =>
              /\ chat_response'.returned
              /\ chat_response'.response_id = response_id
              /\ Len(chatbot_messages) >= 2
              /\ chatbot_messages[Len(chatbot_messages)] = AssistantMessage
              /\ chatbot_messages[Len(chatbot_messages) - 1] = UserMessage
      ]_vars

\* C22 (as claimed): a failure of a Session Store call during a chat turn
\* is fatal to the turn and commits nothing: a create step that inserts no
\* row, a history read that does not return the stored history and a save
\* that appends no message each end the turn with a DatabaseError, and a
\* step that fails leaves the sessions and the messages as they were.
StoreFailureIsFatal ==
    [][ /\ (cpc = "create_session" /\ chatbot_sessions' = chatbot_sessions) =>
              cpc' = "failed" /\ chat_error' = "DatabaseError"
        /\ (cpc = "get_conversations"
              /\ conversation_string'
                    # SessionHistoryLen(chat_session_id, HistoryLimit)) =>
              cpc' = "failed" /\ chat_error' = "DatabaseError"
        /\ (cpc \in {"save_user_message", "save_assistant_message"}
              /\ chatbot_messages' = chatbot_messages) =>
              cpc' = "failed" /\ chat_error' = "DatabaseError"
        /\ cpc' = "failed" =>
              /\ chatbot_sessions' = chatbot_sessions
              /\ chatbot_messages' = chatbot_messages
      ]_vars

\* C29: every message in the chat history carries a session id that has a
\* ChatSession row, also after a turn whose create step failed for a reason
\* other than a duplicate.
MessagesBelongToSessions ==
    \A i \in 1 .. Len(chatbot_messages) :
        chatbot_sessions[chatbot_messages[i].session_id].exists

\* ======================================================================
\* Properties of query_refiner, checked under SpecRefiner
\* ======================================================================
NoParsableLine(lines) ==
    \A i \in 1..Len(lines) :
        lines[i].key \notin {"REQUIRES_RETRIEVAL:", "REFINED_QUERY:"}

\* C5: when the refinement completion call raises, or returns text with no
\* parsable REQUIRES_RETRIEVAL / REFINED_QUERY line, query_refiner returns
\* requires_retrieval = true and the original question as refined_query.
QueryRefinerFailsOpen ==
    (fn_pc = "done"
       /\ (fn_in.completion.outcome = "raise"
             \/ NoParsableLine(fn_in.completion.lines))) =>
        fn_out = [requires_retrieval |-> TRUE, refined_query |-> fn_in.query]

\* ======================================================================
\* Properties of extract_context, checked under SpecContext
\* ======================================================================
ResultNames == [i \in 1..Len(fn_in.retrieval.results) |->
                   PdfNameOf(fn_in.retrieval.results[i])]

\* rank of the first result of a document
FirstRank(name) ==
    CHOOSE i \in 1..Len(ResultNames) :
        ResultNames[i] = name /\ \A j \in 1..(i - 1) : ResultNames[j] # name

DistinctNames == {ResultNames[i] : i \in 1..Len(ResultNames)}

\* C6: the context entries returned by extract_context have pairwise
\* distinct document names, are at most top_k, each is the first
\* (highest-ranked) chunk of its document, and they are in rank order.
ExtractContextDeduplicates ==
    (fn_pc = "done" /\ fn_in.retrieval.outcome = "ok") =>
        LET out == fn_out.context_info
            top_k == fn_in.top_k
        IN  /\ Len(out) <= top_k
            /\ Len(out) = Min(top_k, Cardinality(DistinctNames))
            /\ \A i, j \in 1..Len(out) :
                  i # j => out[i].pdf_name # out[j].pdf_name
            /\ \A i \in 1..Len(out) :
                  /\ out[i].pdf_name \in DistinctNames
                  /\ out[i].pdf_context =
                        fn_in.retrieval.results[FirstRank(out[i].pdf_name)].text
                  /\ out[i].score =
                        fn_in.retrieval.results[FirstRank(out[i].pdf_name)].score
            /\ \A i, j \in 1..Len(out) :
                  i < j => FirstRank(out[i].pdf_name) < FirstRank(out[j].pdf_name)

\* documents [A, A, B, C, A] with top_k = 2 gave the first A chunk and the
\* B chunk
ExtractContextWitness ==
    /\ fn_pc = "done"
    /\ fn_in.top_k = 2
    /\ fn_in.retrieval.outcome = "ok"
    /\ ResultNames = <<"A", "A", "B", "C", "A">>
    /\ fn_out.context_info =
          << [pdf_name |-> "A", pdf_context |-> Str("chunk", 11), score |-> 99],
             [pdf_name |-> "B", pdf_context |-> Str("chunk", 13), score |-> 97] >>

\* ======================================================================
\* Properties of answer_followup, checked under SpecSessions
\* ======================================================================
\* the follow-up last handled named a session id that has no row, and the
\* read of the session store worked
FollowupOnUnknownSession ==
    /\ followup_request.session_id # NoId
    /\ ~evaluator_sessions[followup_request.session_id].exists
    /\ ~(followup_error = "DatabaseError" /\ followup_calls = 0)

\* C14 (as claimed): answer_followup on a session id that is not in the
\* session store fails with a NotFoundError, issues no completion call and
\* appends nothing to the follow-up log.
FollowupUnknownSessionNotFound ==
    FollowupOnUnknownSession =>
        /\ followup_error = "NotFoundError"
        /\ ~followup_response.returned
        /\ followup_calls = 0
        /\ \A i \in 1..Len(evaluator_followups) :
              evaluator_followups[i].session_id # followup_request.session_id

\* ======================================================================
\* Properties of parse_analysis_response, checked under SpecParser
\* ======================================================================
ParserDone == fn_pc = "done"

\* C15: parse_analysis_response never raises: for any input text (empty,
\* prose without headings, only a SCORE heading) and any section type it
\* returns a record whose section_type is the section type it was given.
ParserNeverRaises ==
    ParserDone =>
        /\ ~fn_out.raised
        /\ fn_out.section_type = fn_in.section_type

\* the parser was applied to a text that holds a SCORE heading and nothing
\* else
OnlyScoreHeading ==
    /\ ~fn_in.response.null
    /\ fn_in.response.lines = <<Line("SCORE", FALSE, "77", FALSE)>>

ParserNeverRaisesWitness ==
    /\ ParserDone
    /\ OnlyScoreHeading
    /\ fn_in.section_type = "P_Other"
    /\ fn_out.section_type = "P_Other"
    /\ fn_out.score = 77
    /\ fn_out.strengths = << >>

\* the bullets of a list of a formatted response, as written after "- "
BulletsWritten(bullets) ==
    [i \in 1..Len(bullets) |->
        [text |-> bullets[i].text, bold |-> bullets[i].bold]]

\* C16 (as claimed): for a response in the prompt's format (SCORE,
\* STRENGTHS, GAPS and RECOMMENDATIONS headings each followed by dash
\* bullets, then DETAILED ANALYSIS) the parser returns the score as a
\* number, every bullet of each section in order as that section's list,
\* and the text after the DETAILED ANALYSIS heading as content.
CanonicalRoundTrip ==
    (ParserDone /\ fn_in.canonical) =>
        /\ fn_out.score = NumberPrefix(fn_in.parts.score)
        /\ fn_out.strengths = BulletsWritten(fn_in.parts.strengths)
        /\ fn_out.gaps = BulletsWritten(fn_in.parts.gaps)
        /\ fn_out.recommendations = BulletsWritten(fn_in.parts.recommendations)
        /\ fn_out.content = [null |-> FALSE, lines |-> fn_in.parts.analysis]

RECURSIVE BulletsUpToHeading(_, _)
BulletsUpToHeading(lines, j) ==
    IF j > Len(lines) \/ lines[j].head # "none" THEN << >>
    ELSE (IF lines[j].dash
          THEN <<[text |-> lines[j].text, bold |-> lines[j].bold]>>
          ELSE << >>) \o BulletsUpToHeading(lines, j + 1)

BulletsOfSection(lines, names) ==
    LET i == FirstHeading(lines, names, 1)
    IN  IF i = 0 THEN << >> ELSE BulletsUpToHeading(lines, i + 1)

\* C23 (as claimed): for STRENGTHS, and likewise GAPS and RECOMMENDATIONS,
\* the parser returns every line that begins with a dash bullet between
\* the section's heading and the next heading (or the end of the text), in
\* order, without the bullet marker and with its text intact, also when the
\* text holds '**' emphasis.
SectionBulletsIntact ==
    (ParserDone /\ ~ParseBodyRaises(fn_in.response, fn_in.section_type)) =>
        /\ fn_out.strengths
              = BulletsOfSection(fn_in.response.lines, {"STRENGTHS"})
        /\ fn_out.gaps
              = BulletsOfSection(fn_in.response.lines,
                                 {"GAPS", "CRITICAL GAPS", "MINOR GAPS"})
        /\ fn_out.recommendations
              = BulletsOfSection(fn_in.response.lines, {"RECOMMENDATIONS"})

\* ======================================================================
\* Properties of break_into_paragraphs, checked under SpecParagraphs
\* ======================================================================
ParagraphsDone == fn_pc = "done"

\* the lines of a sequence of paragraphs, in order
RECURSIVE Flatten(_)
Flatten(paras) ==
    IF paras = << >> THEN << >> ELSE Head(paras) \o Flatten(Tail(paras))

\* the numbers of lines before each paragraph break
BreakPositions(paras) ==
    {Len(Flatten(SubSeq(paras, 1, i))) : i \in 0..Len(paras)}

\* existing paragraph breaks are kept, and paragraphs are split at line
\* boundaries only: the lines are the input's lines, none cut and none
\* dropped, and every break of the input is a break of the output
BreaksKept ==
    /\ Flatten(fn_out.paras) = Flatten(fn_in.text.paras)
    /\ BreakPositions(fn_in.text.paras) \subseteq BreakPositions(fn_out.paras)

\* C18 (as claimed): every chunk of the text break_into_paragraphs returns
\* is at most max_length characters long, for every input text; existing
\* paragraph breaks are kept and paragraphs are split at line boundaries.
EveryChunkWithinLimit ==
    ParagraphsDone =>
        /\ \A i \in 1..Len(fn_out.paras) :
              JoinedLinesLen(fn_out.paras[i]) <= fn_in.max_length
        /\ BreaksKept

\* C18 (amended): every chunk is at most max_length characters long unless
\* it is one single line that is longer than max_length, which is left
\* whole; existing paragraph breaks are kept and paragraphs are split at
\* line boundaries only.
EveryChunkWithinLimitOrOneLine ==
    ParagraphsDone =>
        /\ \A i \in 1..Len(fn_out.paras) :
              \/ JoinedLinesLen(fn_out.paras[i]) <= fn_in.max_length
              \/ Len(fn_out.paras[i]) = 1
        /\ BreaksKept

\* an oversized paragraph of three lines was split after its second line,
\* and the paragraph after it kept
ChunkWitness ==
    /\ ParagraphsDone
    /\ fn_in.max_length = WhatsAppMaxLength
    /\ fn_in.text.paras = <<<<400, 400, 400>>, <<400>>>>
    /\ fn_out.paras = <<<<400, 400>>, <<400>>, <<400>>>>

\* the columns save_evaluation_results sets: the three sections and the
\* overall score
SectionColumns(row) ==
    <<row.internal_analysis, row.external_analysis, row.delta_analysis,
      row.overall_score>>

\* C19: over any sequence of evaluate and answer_followup operations (a
\* second evaluate with the same caller-supplied session id included) the
\* three sections and the overall score of a session row change in no step
\* other than one that sets the three sections together on a row that has
\* none of them yet; a follow-up changes no session row, and the follow-up
\* log is only appended to.
SectionsWrittenOnce ==
    [][ /\ \A s \in AllSessionIds :
              SectionColumns(evaluator_sessions'[s])
                      # SectionColumns(evaluator_sessions[s]) =>
                  /\ evaluator_sessions[s].exists
                  /\ SectionColumns(evaluator_sessions[s])
                        = <<"none", "none", "none", "none">>
                  /\ evaluator_sessions'[s].internal_analysis # "none"
                  /\ evaluator_sessions'[s].external_analysis # "none"
                  /\ evaluator_sessions'[s].delta_analysis # "none"
        /\ nfollowups' # nfollowups => evaluator_sessions' = evaluator_sessions
        /\ IsPrefix(evaluator_followups, evaluator_followups')
        /\ Len(evaluator_followups') <= Len(evaluator_followups) + 1
      ]_vars

\* a second evaluate with the session id of the first has failed on the
\* INSERT, a follow-up on that session was answered and appended to the
\* log, and the row is the one the first evaluate inserted
SectionsWrittenOnceWitness ==
    /\ nrequests = 2
    /\ request.session_id = 1
    /\ epc = "failed"
    /\ eval_error = "DatabaseError"
    /\ ~session_created
    /\ evaluator_followups # << >>
    /\ evaluator_followups[1].session_id = 1
    /\ followup_response.returned
    /\ evaluator_sessions[1].exists
    /\ SectionColumns(evaluator_sessions[1]) = <<"none", "none", "none", "none">>

ForwardsWithinLimit == forwarded_in_window <= max_requests

\* C27: in every reachable state the counter key carries an expiry, also
\* when the key expired between a request's read of the counter and its
\* increment, so that a rejected client is admitted again once the window
\* has elapsed.
CounterKeyCarriesExpiry == redis_store.exists => redis_store.ttl > 0

\* C28: dispatch hands each request to the application (call_next) at most
\* once, whatever raises on the way.
ForwardedAtMostOnce == \A r \in Dispatches : dispatches[r].forwards <= 1

\* ======================================================================
\* Properties of get_db_cursor, checked under SpecPool
\* ======================================================================
\* C30: get_db_cursor hands every connection it took back to the pool
\* exactly once on every exit path, and only after the transaction was
\* committed or rolled back, whatever the exception of the with-body; no
\* pooled connection carries an open transaction.
ConnectionReturnedClean ==
    /\ \A c \in Cursors :
          /\ cursors[c].pc = "body" => cursors[c].putconn_calls = 0
          /\ (cursors[c].pc = "exited" /\ cursors[c].connection # NoConnection)
                => /\ cursors[c].putconn_calls = 1
                   /\ cursors[c].put_status # "open"
    /\ \A k \in Connections :
          pool_connections[k].place = "pool" => pool_connections[k].status = "idle"

====
